---------------------------- MODULE Spec2Model ----------------------------
(***************************************************************************)
(* A model of the analytical core of the EV battery SOH framework:         *)
(*   - src/dv_analyzer.py     (DVAnalyzer and the module-level Config)      *)
(*   - src/soh_calculator.py  (SOHCalculator)                               *)
(*                                                                          *)
(* Numbers.  numpy float64 values are modelled as exact rationals plus the  *)
(* three IEEE-754 special values (nan, +inf, -inf).  A value is a record    *)
(*   [k |-> "num", n |-> numerator, d |-> denominator > 0]  (lowest terms)  *)
(*   [k |-> "nan", n |-> 0, d |-> 1]                                        *)
(*   [k |-> "inf", n |-> +1 or -1, d |-> 1]                                 *)
(* Rounding error is not modelled; division by zero, nan propagation and    *)
(* comparisons with nan follow IEEE-754 as numpy applies them (a warning,   *)
(* never an exception).                                                     *)
(*                                                                          *)
(* Outcomes.  A call of a method ends in a record                           *)
(*   [exc |-> name of the exception that escaped, or "none", ...]           *)
(* Python's None is the record/array tagged "None".                         *)
(***************************************************************************)
EXTENDS Integers, Sequences, FiniteSets, TLC

VARIABLES
    \* ---- DVAnalyzer instance (src/dv_analyzer.py:53-57) and the global config
    voltage, current, soc,      \* self.voltage, self.current, self.soc
    dv_curve_,                  \* self.dv_curve_
    degradation_modes_,         \* self.degradation_modes_
    config,                     \* module-level `config` (src/dv_analyzer.py:29)
    analyzer,                   \* "none" | "ready" | "failed" (constructor raised)
    dv,                         \* local `dv` of _calculate_dv after line 78 (raw curve)
    dv_call,                    \* the last DVAnalyzer call: operation, exception, result
    \* ---- direct calls of DVAnalyzer._smooth
    sm_call,
    \* ---- direct calls of the peak detectors
    pk_call,
    \* ---- SOHCalculator
    soh_config,                 \* self.config
    soh_call,                   \* the last SOHCalculator call
    \* ---- direct calls of DVAnalyzer.normalize_features
    nf_call,
    \* ---- two analyses run side by side under the one module-level config
    runs,
    \* ---- the services around the analyzers, one record of attributes each
    db,                         \* DatabaseManager and its database file
    handler,                    \* ConfigHandler and its parameters file
    acq,                        \* DataAcquisition
    ctl                         \* MeasurementController and the main() that drives it

vars == <<voltage, current, soc, dv_curve_, degradation_modes_, config, analyzer,
          dv, dv_call, sm_call, pk_call, soh_config, soh_call, nf_call, runs,
          db, handler, acq, ctl>>

dvVars  == <<voltage, current, soc, dv_curve_, degradation_modes_, config, analyzer,
             dv, dv_call>>
sohVars == <<soh_config, soh_call>>
moreVars == <<nf_call, runs>>
sysVars == <<db, handler, acq, ctl>>
analysisVars == <<dvVars, sm_call, pk_call, sohVars, moreVars>>

-----------------------------------------------------------------------------
(* Bounds of the model *)

MaxLen == 4        \* longest voltage / current / soc array of a DVAnalyzer
MaxVal == 2        \* largest voltage sample (and sample of an array handed to _smooth)
MaxSoc == 3        \* largest soc sample
MaxWin == 3        \* largest smoothing window size tried
MaxSmLen == 4      \* longest array handed to _smooth directly
MaxCurveLen == 5   \* longest arbitrary curve handed to a peak detector directly
MaxPeak == 3       \* largest sample of such a curve
MaxPeaks == 3      \* most peaks of a peak train handed to a peak detector
MaxNfLen == 4      \* longest feature vector handed to normalize_features
MaxNfVal == 2      \* largest feature value (the smallest is -1)

-----------------------------------------------------------------------------
(* float64 arithmetic *)

Abs(x) == IF x < 0 THEN -x ELSE x

Sign(x) == IF x < 0 THEN -1 ELSE IF x > 0 THEN 1 ELSE 0

RECURSIVE GCD(_, _)
GCD(a, b) == IF b = 0 THEN a ELSE GCD(b, a % b)

\* the rational n/d (d > 0) in lowest terms
Num(n, d) ==
    LET g == GCD(Abs(n), d)
    IN  [k |-> "num", n |-> n \div g, d |-> d \div g]

NaN == [k |-> "nan", n |-> 0, d |-> 1]

Inf(s) == [k |-> "inf", n |-> s, d |-> 1]

\* an integer sample as a float
R(i) == Num(i, 1)

IsNum(x) == x.k = "num"

Neg(x) ==
    CASE x.k = "nan" -> NaN
      [] x.k = "inf" -> Inf(-x.n)
      [] OTHER       -> Num(-x.n, x.d)

Add(x, y) ==
    CASE x.k = "nan" \/ y.k = "nan"   -> NaN
      [] x.k = "inf" /\ y.k = "inf"   -> IF x.n = y.n THEN x ELSE NaN
      [] x.k = "inf"                  -> x
      [] y.k = "inf"                  -> y
      [] OTHER                        -> Num(x.n * y.d + y.n * x.d, x.d * y.d)

Sub(x, y) == Add(x, Neg(y))

Mul(x, y) ==
    CASE x.k = "nan" \/ y.k = "nan"   -> NaN
      [] x.k = "inf" \/ y.k = "inf"   ->
            IF Sign(x.n) * Sign(y.n) = 0 THEN NaN ELSE Inf(Sign(x.n) * Sign(y.n))
      [] OTHER                        -> Num(x.n * y.n, x.d * y.d)

\* numpy true division: x / 0 is nan or an infinity, with a RuntimeWarning only
Div(x, y) ==
    CASE x.k = "nan" \/ y.k = "nan"   -> NaN
      [] x.k = "inf" /\ y.k = "inf"   -> NaN
      [] x.k = "inf"                  -> Inf(IF y.n < 0 THEN -x.n ELSE x.n)
      [] y.k = "inf"                  -> R(0)
      [] y.n = 0                      -> IF x.n = 0 THEN NaN ELSE Inf(Sign(x.n))
      [] OTHER                        -> Num(x.n * y.d * Sign(y.n), x.d * Abs(y.n))

\* x < y; every comparison with nan is False
Lt(x, y) ==
    /\ x.k # "nan"
    /\ y.k # "nan"
    /\ IF x.k = "inf" THEN x.n < 0 /\ ~(y.k = "inf" /\ y.n < 0)
       ELSE IF y.k = "inf" THEN y.n > 0
       ELSE x.n * y.d < y.n * x.d

Gt(x, y) == Lt(y, x)

\* x <= y
Le(x, y) == Lt(x, y) \/ (x.k # "nan" /\ x = y)

Ge(x, y) == Le(y, x)

\* the array of floats of an integer array
Floats(s) == [i \in 1..Len(s) |-> R(s[i])]

\* all arrays of length 0..n over the set S
SeqsUpTo(S, n) == UNION {[1..m -> S] : m \in 0..n}


-----------------------------------------------------------------------------
(* Python values and call outcomes *)

None == [tag |-> "None", val |-> <<>>]

Arr(s) == [tag |-> "array", val |-> s]

\* a call that returned the array s
Ok(s) == [exc |-> "none", val |-> s]

\* a call that an exception of class e escaped from
Raise(e) == [exc |-> e, val |-> <<>>]

NoModes == [tag |-> "None", lam_pe |-> <<>>, lam_ne |-> <<>>, lli |-> <<>>]

\* the ascending sequence of the elements of a finite set of integers
RECURSIVE SortedSeq(_)
SortedSeq(S) ==
    IF S = {} THEN <<>>
    ELSE LET m == CHOOSE x \in S : \A y \in S : x <= y
         IN  <<m>> \o SortedSeq(S \ {m})

Range(s) == {s[i] : i \in 1..Len(s)}

-----------------------------------------------------------------------------
(* src/dv_analyzer.py *)

\* Config() as constructed at import (lines 19-23): window 5, thresholds
\* 0.05, -0.05, -0.1
DefaultConfig ==
    [dv_window_size   |-> 5,
     lam_pe_threshold |-> Num(1, 20),
     lam_ne_threshold |-> Num(-1, 20),
     lli_threshold    |-> Num(-1, 10)]

\* DVAnalyzer._validate_input: the error it raises, or "none"
ValidateNoSocCheck(v, c, s) ==
    IF Len(v) # Len(c) \/ Len(v) # Len(s) THEN "InvalidInputError"
    ELSE IF \E i \in 1..Len(c) : Le(c[i], R(0)) THEN "InvalidInputError"
    ELSE "none"

_validate_input(v, c, s) ==
    IF Len(v) # Len(c) \/ Len(v) # Len(s) THEN "InvalidInputError"
    ELSE IF \E i \in 1..Len(c) : Le(c[i], R(0)) THEN "InvalidInputError"
    ELSE IF ~(\A i \in 1..(Len(s) - 1) : Ge(Sub(s[i + 1], s[i]), R(0)))
         THEN "InvalidInputError"
    ELSE "none"

\* np.gradient(f) with unit spacing, for an array of at least 2 samples:
\* central differences inside, one-sided differences at the two ends
gradient(f) ==
    [i \in 1..Len(f) |->
        IF i = 1 THEN Sub(f[2], f[1])
        ELSE IF i = Len(f) THEN Sub(f[Len(f)], f[Len(f) - 1])
        ELSE Div(Sub(f[i + 1], f[i - 1]), R(2))]

\* sum of data[lo..hi], each sample weighted 1/w (one tap of np.convolve)
RECURSIVE WinSum(_, _, _, _)
WinSum(data, lo, hi, w) ==
    IF lo > hi THEN R(0)
    ELSE Add(Mul(data[lo], Num(1, w)), WinSum(data, lo + 1, hi, w))

\* DVAnalyzer._smooth: np.convolve(data, np.ones(w) / w, mode='valid').
\* np.ones raises ValueError for a negative size; np.convolve raises ValueError
\* when either array is empty; for w > len(data) numpy swaps the two arrays, so
\* the result has w - len(data) + 1 samples, each sum(data) / w.
SmoothPadded(data, window_size) ==
    IF window_size < 0 THEN Raise("ValueError")
    ELSE IF window_size = 0 \/ Len(data) = 0 THEN Raise("ValueError")
    ELSE Ok([i \in 1..Len(data) |->
                WinSum(data, i, IF i + window_size - 1 > Len(data) THEN Len(data)
                                ELSE i + window_size - 1, window_size)])

_smooth(data, window_size) ==
    IF window_size < 0 THEN Raise("ValueError")
    ELSE IF window_size = 0 \/ Len(data) = 0 THEN Raise("ValueError")
    ELSE IF window_size <= Len(data)
         THEN Ok([i \in 1..(Len(data) - window_size + 1) |->
                    WinSum(data, i, i + window_size - 1, window_size)])
         ELSE Ok([i \in 1..(window_size - Len(data) + 1) |->
                    WinSum(data, 1, Len(data), window_size)])

\* line 78: np.gradient(self.voltage) / np.gradient(self.soc).  np.gradient
\* raises ValueError for fewer than 2 samples; arrays of different lengths do
\* not broadcast (ValueError).
RawDVNoSocGradient(v, s) ==
    IF Len(v) < 2 \/ Len(s) < 2 \/ Len(v) # Len(s) THEN Raise("ValueError")
    ELSE LET gv == gradient(v)
         IN  Ok([i \in 1..Len(v) |-> Div(gv[i], s[i])])

RawDV(v, s) ==
    IF Len(v) < 2 \/ Len(s) < 2 \/ Len(v) # Len(s) THEN Raise("ValueError")
    ELSE LET gv == gradient(v)
             gs == gradient(s)
         IN  Ok([i \in 1..Len(v) |-> Div(gv[i], gs[i])])

\* DVAnalyzer._calculate_dv (lines 76-80)
CalculateDvResmooth(v, s, cfg) ==
    IF dv_curve_.tag = "array" THEN _smooth(dv_curve_.val, cfg.dv_window_size)
    ELSE LET raw == RawDV(v, s)
         IN  IF raw.exc # "none" THEN raw ELSE _smooth(raw.val, cfg.dv_window_size)

_calculate_dv(v, s, cfg) ==
    LET raw == RawDV(v, s)
    IN  IF raw.exc # "none" THEN raw ELSE _smooth(raw.val, cfg.dv_window_size)


\* peakutils `indices(y, thres, min_dist)`: the library is not part of the
\* repository; it is modelled as the scan the specification describes (local
\* maxima above the threshold, then non-maximum suppression: candidates are
\* taken by decreasing magnitude, the lower index first among equals, and a
\* candidate is dropped when a peak already kept lies closer than min_dist).
Candidates(y, thres) ==
    {i \in 2..(Len(y) - 1) : Lt(y[i - 1], y[i]) /\ Gt(y[i], y[i + 1]) /\ Gt(y[i], thres)}

RECURSIVE Suppress(_, _, _, _)
Suppress(y, todo, kept, min_dist) ==
    IF todo = {} THEN kept
    ELSE LET best == CHOOSE i \in todo :
                        \A j \in todo : Lt(y[j], y[i]) \/ (~Lt(y[i], y[j]) /\ i <= j)
         IN  Suppress(y, todo \ {best},
                      IF \E q \in kept : Abs(q - best) < min_dist
                      THEN kept ELSE kept \cup {best},
                      min_dist)

\* the kept peaks as an ascending sequence of 0-based positions
indices(y, thres, min_dist) ==
    SortedSeq({i - 1 : i \in Suppress(y, Candidates(y, thres), {}, min_dist)})

NegArr(y) == [i \in 1..Len(y) |-> Neg(y[i])]

\* DVAnalyzer._detect_lam_pe (lines 82-85)
DetectLamPeNoMinDist(y, cfg) == indices(y, cfg.lam_pe_threshold, 1)

_detect_lam_pe(y, cfg) == indices(y, cfg.lam_pe_threshold, cfg.dv_window_size)

\* the `thres` argument of line 89: the threshold as configured
lam_ne_thres(cfg) == cfg.lam_ne_threshold

\* DVAnalyzer._detect_lam_ne (lines 87-90): the negated curve, the threshold as
\* configured
_detect_lam_ne(y, cfg) == indices(NegArr(y), lam_ne_thres(cfg), cfg.dv_window_size)

\* DVAnalyzer._detect_lli (lines 92-95)
_detect_lli(y, cfg) == indices(y, cfg.lli_threshold, cfg.dv_window_size)

\* DVAnalyzer._identify_degradation_modes (lines 97-103): the new mapping
_identify_degradation_modes(y, cfg) ==
    [tag    |-> "dict",
     lam_pe |-> _detect_lam_pe(y, cfg),
     lam_ne |-> _detect_lam_ne(y, cfg),
     lli    |-> _detect_lli(y, cfg)]


-----------------------------------------------------------------------------
(* Inputs tried *)

\* (voltage, current, soc) handed to the constructor: every voltage and soc
\* array of a common length; a current array that is all 1, or 1 with one
\* sample 0; and, for the length check, a current or soc array of another length
OtherLen(n) == (n + 1) % (MaxLen + 1)

Ones(n) == [i \in 1..n |-> 1]

Zeros(n) == [i \in 1..n |-> 0]

CurrentArrays(n) ==
    {Ones(n), Ones(OtherLen(n))} \cup {[Ones(n) EXCEPT ![j] = 0] : j \in 1..n}

VoltageArrays(n) == [1..n -> 0..MaxVal]

SocArrays(n) == [1..n -> 0..MaxSoc] \cup {Zeros(OtherLen(n))}

\* values the caller may store in the global config
ConfigSet ==
    {DefaultConfig} \cup
    {[dv_window_size   |-> w,
      lam_pe_threshold |-> p,
      lam_ne_threshold |-> Num(-1, 20),
      lli_threshold    |-> Num(-1, 10)] :
        w \in 0..MaxWin, p \in {Num(1, 20)}}

\* the end-to-end scenario: voltage 3.0 .. 3.4, current 1, SOC 0.0 .. 0.8
ScenarioVoltage == <<Num(30, 10), Num(31, 10), Num(32, 10), Num(33, 10), Num(34, 10)>>

ScenarioCurrent == <<R(1), R(1), R(1), R(1), R(1)>>

ScenarioSoc == <<R(0), Num(1, 5), Num(2, 5), Num(3, 5), Num(4, 5)>>

\* window size 1 and every threshold above 0.5
ScenarioConfigs ==
    {[dv_window_size   |-> 1,
      lam_pe_threshold |-> p,
      lam_ne_threshold |-> n,
      lli_threshold    |-> l] :
        p \in {Num(3, 5), R(1)}, n \in {Num(3, 5), R(1)}, l \in {Num(3, 5), R(1)}}

\* the scenario and its neighbours: one voltage sample moved to 3.0 or to 3.4,
\* the last SOC step removed
RunVoltages ==
    {ScenarioVoltage} \cup
    {[ScenarioVoltage EXCEPT ![j] = x] : j \in 1..5, x \in {Num(30, 10), Num(34, 10)}}

RunSocs == {ScenarioSoc, [ScenarioSoc EXCEPT ![5] = Num(3, 5)]}

RunConfigs ==
    ScenarioConfigs \cup {DefaultConfig, [DefaultConfig EXCEPT !.dv_window_size = 1]}

RunFeatures == {<<R(0), R(1)>>, <<R(1), R(1)>>}

IdleCall == [op |-> "idle", exc |-> "none", ret |-> None]

IdleNormalize == [features |-> <<>>, called |-> FALSE, out |-> Ok(<<>>)]

\* no analysis has started
NoRuns == <<>>

-----------------------------------------------------------------------------
(* DVAnalyzer: the operations *)

\* DVAnalyzer.__init__ (lines 44-58) on three arrays of floats; the model
\* follows one instance, so the constructor runs once
Init__(v, c, s) ==
    /\ voltage' = v
    /\ current' = c
    /\ soc' = s
    /\ dv_curve_' = None
    /\ degradation_modes_' = NoModes
    /\ dv' = None
    /\ LET e == _validate_input(v, c, s)
       IN  /\ analyzer' = IF e = "none" THEN "ready" ELSE "failed"
           /\ dv_call' = [op |-> "__init__", exc |-> e, ret |-> None]
    /\ UNCHANGED <<config, sm_call, pk_call, sohVars, moreVars, sysVars>>

Construct ==
    /\ analyzer = "none"
    /\ \E n \in 0..MaxLen :
          \E v \in VoltageArrays(n), c \in CurrentArrays(n), s \in SocArrays(n) :
             Init__(Floats(v), Floats(c), Floats(s))

ConstructRun ==
    /\ analyzer = "none"
    /\ \E v \in RunVoltages, s \in RunSocs : Init__(v, ScenarioCurrent, s)

\* a calculate_dv_curve that stores the window size it used back in the config
CalculateDvCurveStoringWindow ==
    /\ analyzer = "ready"
    /\ LET raw == RawDV(voltage, soc)
           r   == _calculate_dv(voltage, soc, config)
       IN  /\ dv' = IF raw.exc = "none" THEN Arr(raw.val) ELSE None
           /\ dv_call' = [op |-> "calculate_dv_curve", exc |-> r.exc,
                           ret |-> IF r.exc = "none" THEN Arr(r.val) ELSE None]
           /\ IF r.exc = "none"
              THEN /\ dv_curve_' = Arr(r.val)
                   /\ degradation_modes_' = _identify_degradation_modes(r.val, config)
              ELSE UNCHANGED <<dv_curve_, degradation_modes_>>
    /\ config' = [config EXCEPT !.dv_window_size = 1]
    /\ UNCHANGED <<voltage, current, soc, analyzer, sm_call, pk_call, sohVars, moreVars, sysVars>>

\* DVAnalyzer.calculate_dv_curve (lines 105-109), with _calculate_dv and
\* _identify_degradation_modes; an exception of _calculate_dv escapes before
\* either attribute is assigned
calculate_dv_curve ==
    /\ analyzer = "ready"
    /\ LET raw == RawDV(voltage, soc)
           r   == _calculate_dv(voltage, soc, config)
       IN  /\ dv' = IF raw.exc = "none" THEN Arr(raw.val) ELSE None
           /\ dv_call' = [op |-> "calculate_dv_curve", exc |-> r.exc,
                           ret |-> IF r.exc = "none" THEN Arr(r.val) ELSE None]
           /\ IF r.exc = "none"
              THEN /\ dv_curve_' = Arr(r.val)
                   /\ degradation_modes_' = _identify_degradation_modes(r.val, config)
              ELSE UNCHANGED <<dv_curve_, degradation_modes_>>
    /\ UNCHANGED <<voltage, current, soc, config, analyzer, sm_call, pk_call, sohVars, moreVars, sysVars>>

\* DVAnalyzer._identify_degradation_modes called again on the stored curve
identify_again ==
    /\ analyzer = "ready"
    /\ dv_curve_.tag = "array"
    /\ degradation_modes_' = _identify_degradation_modes(dv_curve_.val, config)
    /\ dv_call' = [op |-> "_identify_degradation_modes", exc |-> "none", ret |-> None]
    /\ UNCHANGED <<voltage, current, soc, dv_curve_, config, analyzer, dv,
                   sm_call, pk_call, sohVars, moreVars, sysVars>>

\* the caller stores the settings of the run in the module-level config
\* before the analysis is run
SetConfig(c) ==
    /\ analyzer = "ready"
    /\ dv_call.op = "__init__"
    /\ config' = c
    /\ UNCHANGED <<voltage, current, soc, dv_curve_, degradation_modes_, analyzer,
                   dv, dv_call, sm_call, pk_call, sohVars, moreVars, sysVars>>

\* DVAnalyzer.identify_degradation_modes (lines 111-113): the attribute as it is
identify_degradation_modes ==
    /\ analyzer = "ready"
    /\ dv_call' = [op |-> "identify_degradation_modes", exc |-> "none",
                   ret |-> degradation_modes_]
    /\ UNCHANGED <<voltage, current, soc, dv_curve_, degradation_modes_, config,
                   analyzer, dv, sm_call, pk_call, sohVars, moreVars, sysVars>>

\* self.degradation_modes_.get(key, []) of lines 117, 121 and 125: None has no
\* `get` (AttributeError)
ModeAccessorDefaulting(op, key) ==
    /\ analyzer = "ready"
    /\ dv_call' = [op |-> op, exc |-> "none", ret |-> Arr(degradation_modes_[key])]
    /\ UNCHANGED <<voltage, current, soc, dv_curve_, degradation_modes_, config,
                   analyzer, dv, sm_call, pk_call, sohVars, moreVars, sysVars>>

ModeAccessor(op, key) ==
    /\ analyzer = "ready"
    /\ dv_call' = IF degradation_modes_.tag = "None"
                  THEN [op |-> op, exc |-> "AttributeError", ret |-> None]
                  ELSE [op |-> op, exc |-> "none", ret |-> Arr(degradation_modes_[key])]
    /\ UNCHANGED <<voltage, current, soc, dv_curve_, degradation_modes_, config,
                   analyzer, dv, sm_call, pk_call, sohVars, moreVars, sysVars>>

\* DVAnalyzer.detect_lam_pe (lines 115-117)
detect_lam_pe == ModeAccessor("detect_lam_pe", "lam_pe")

\* DVAnalyzer.detect_lam_ne (lines 119-121)
detect_lam_ne == ModeAccessor("detect_lam_ne", "lam_ne")

\* DVAnalyzer.detect_lli (lines 123-125)
detect_lli == ModeAccessor("detect_lli", "lli")

\* np.min / np.max of a non-empty array; nan if any sample is nan
RECURSIVE MinOf(_, _)
MinOf(f, n) ==
    IF n = 1 THEN f[1]
    ELSE LET m == MinOf(f, n - 1)
         IN  IF m.k = "nan" \/ f[n].k = "nan" THEN NaN
             ELSE IF Lt(f[n], m) THEN f[n] ELSE m

RECURSIVE MaxOf(_, _)
MaxOf(f, n) ==
    IF n = 1 THEN f[1]
    ELSE LET m == MaxOf(f, n - 1)
         IN  IF m.k = "nan" \/ f[n].k = "nan" THEN NaN
             ELSE IF Gt(f[n], m) THEN f[n] ELSE m

\* DVAnalyzer.normalize_features (lines 127-131): np.min raises ValueError for
\* an empty array; a zero range divides by zero (nan or an infinity, no error)
NormalizeClipped(features) ==
    IF Len(features) = 0 THEN Raise("ValueError")
    ELSE LET min_val == MinOf(features, Len(features))
             max_val == MaxOf(features, Len(features))
         IN  Ok([i \in 1..Len(features) |->
                   IF max_val = min_val THEN R(0)
                   ELSE Div(Sub(features[i], min_val), max_val)])

normalize_features(features) ==
    IF Len(features) = 0 THEN Raise("ValueError")
    ELSE LET min_val == MinOf(features, Len(features))
             max_val == MaxOf(features, Len(features))
         IN  Ok([i \in 1..Len(features) |->
                   Div(Sub(features[i], min_val), Sub(max_val, min_val))])

\* one call of normalize_features; it reads and writes no attribute
Normalize(features) ==
    /\ ~nf_call.called
    /\ nf_call' = [features |-> features, called |-> TRUE,
                   out |-> normalize_features(features)]
    /\ UNCHANGED <<dvVars, sm_call, pk_call, sohVars, runs, sysVars>>

-----------------------------------------------------------------------------
(* Two analyses side by side.  DVAnalyzer takes no Config: every instance     *)
(* reads the module-level `config` (lines 79, 84, 89, 94), so the settings of *)
(* an analysis reach it only through that one object.                         *)

PairVoltages ==
    {ScenarioVoltage,
     [ScenarioVoltage EXCEPT ![3] = Num(34, 10)],
     [ScenarioVoltage EXCEPT ![2] = Num(34, 10), ![4] = Num(30, 10)]}

PairConfigs ==
    {[DefaultConfig EXCEPT !.dv_window_size = 1],
     [DefaultConfig EXCEPT !.dv_window_size = 2],
     [dv_window_size |-> 1, lam_pe_threshold |-> R(1), lam_ne_threshold |-> R(1),
      lli_threshold |-> R(1)]}

\* an analysis that has not started: its own arrays and its own settings
NewRun(v, cfg) ==
    [voltage |-> v, current |-> ScenarioCurrent, soc |-> ScenarioSoc, cfg |-> cfg,
     pc |-> "start", dv_curve_ |-> None, degradation_modes_ |-> NoModes]

PairRuns == {NewRun(v, cfg) : v \in PairVoltages, cfg \in PairConfigs}

\* the caller of analysis i stores its settings in the module-level config
RunConfigure(i) ==
    /\ runs[i].pc = "start"
    /\ config' = runs[i].cfg
    /\ runs' = [runs EXCEPT ![i].pc = "configured"]
    /\ UNCHANGED <<voltage, current, soc, dv_curve_, degradation_modes_, analyzer,
                   dv, dv_call, sm_call, pk_call, sohVars, nf_call, sysVars>>

\* DVAnalyzer.__init__ of analysis i (lines 44-58)
RunConstruct(i) ==
    /\ runs[i].pc = "configured"
    /\ runs' = [runs EXCEPT ![i].pc =
                  IF _validate_input(runs[i].voltage, runs[i].current, runs[i].soc) = "none"
                  THEN "constructed" ELSE "failed"]
    /\ UNCHANGED <<dvVars, sm_call, pk_call, sohVars, nf_call, sysVars>>

\* line 107 of analysis i: self.dv_curve_ = self._calculate_dv()
RunCalculateDv(i) ==
    /\ runs[i].pc = "constructed"
    /\ LET r == _calculate_dv(runs[i].voltage, runs[i].soc, config)
       IN  runs' = IF r.exc = "none"
                   THEN [runs EXCEPT ![i].pc = "curve", ![i].dv_curve_ = Arr(r.val)]
                   ELSE [runs EXCEPT ![i].pc = "failed"]
    /\ UNCHANGED <<dvVars, sm_call, pk_call, sohVars, nf_call, sysVars>>

\* line 108 of analysis i: self._identify_degradation_modes()
RunIdentify(i) ==
    /\ runs[i].pc = "curve"
    /\ runs' = [runs EXCEPT
                  ![i].pc = "done",
                  ![i].degradation_modes_ =
                      _identify_degradation_modes(runs[i].dv_curve_.val, config)]
    /\ UNCHANGED <<dvVars, sm_call, pk_call, sohVars, nf_call, sysVars>>

-----------------------------------------------------------------------------
(* src/soh_calculator.py *)

Scalar(x) == [tag |-> "scalar", val |-> <<x>>]

\* scipy.integrate.cumtrapz(y, x, initial=0): ValueError unless
\* len(np.diff(x)) = len(y) - 1; otherwise the running trapezoid sum, 0.0 first
RECURSIVE CumSum(_, _, _)
CumSum(y, x, i) ==
    IF i = 1 THEN R(0)
    ELSE Add(CumSum(y, x, i - 1),
             Div(Mul(Sub(x[i], x[i - 1]), Add(y[i], y[i - 1])), R(2)))

cumtrapz(y, x) ==
    IF (IF Len(x) = 0 THEN 0 ELSE Len(x) - 1) # Len(y) - 1 THEN Raise("ValueError")
    ELSE Ok([i \in 1..Len(y) |-> CumSum(y, x, i)])

\* self.config.get(key): ConfigHandler defines no `get` (AttributeError); a
\* dict returns the stored value
HasGet(cfg) == cfg.kind = "dict"

\* SOHCalculator.apply_voltage_window (lines 113-133): None when the lookup
\* of 'voltage_window' raises
apply_voltage_window(data, cfg) ==
    IF ~HasGet(cfg) THEN None
    ELSE Arr([i \in 1..Len(data) |->
                IF Gt(data[i], cfg.voltage_window[1]) /\ Lt(data[i], cfg.voltage_window[2])
                THEN data[i] ELSE NaN])

\* SOHCalculator.integrate_charge_discharge (lines 91-111): each result of
\* cumtrapz is unpacked into two names (`charge, _ = ...`), which succeeds only
\* for an array of exactly 2 entries and then binds its first entry; every
\* exception gives (None, None)
integrate_charge_discharge(data, time) ==
    IF data.tag # "array" THEN <<None, None>>
    ELSE LET c == cumtrapz(data.val, time)
             d == cumtrapz(NegArr(data.val), time)
         IN  IF c.exc # "none" \/ Len(c.val) # 2 THEN <<None, None>>
             ELSE <<Scalar(c.val[1]), Scalar(d.val[1])>>

\* np.any(a < cutoff) for an array or a numpy scalar
AnyBelow(a, cutoff) == \E i \in 1..Len(a.val) : Lt(a.val[i], cutoff)

\* (charge < cc) | (discharge < cd) broadcasts unless both are arrays of
\* different lengths, neither of length 1
Broadcasts(a, b) ==
    \/ a.tag = "scalar"
    \/ b.tag = "scalar"
    \/ Len(a.val) = Len(b.val)
    \/ Len(a.val) = 1
    \/ Len(b.val) = 1

\* SOHCalculator.validate_cutoff_conditions (lines 135-158); any exception
\* (no `get`, a None operand, shapes that do not broadcast) gives False
ValidateChargeOnly(charge, discharge, cfg) ==
    IF ~HasGet(cfg) THEN FALSE
    ELSE IF charge.tag = "None" \/ discharge.tag = "None" THEN FALSE
    ELSE IF ~Broadcasts(charge, discharge) THEN FALSE
    ELSE ~AnyBelow(charge, cfg.cutoff_charge)

validate_cutoff_conditions(charge, discharge, cfg) ==
    IF ~HasGet(cfg) THEN FALSE
    ELSE IF charge.tag = "None" \/ discharge.tag = "None" THEN FALSE
    ELSE IF ~Broadcasts(charge, discharge) THEN FALSE
    ELSE ~(AnyBelow(charge, cfg.cutoff_charge) \/ AnyBelow(discharge, cfg.cutoff_discharge))

\* the reduction of lines 173 and 194:
\* np.mean((charge[-1] - charge[0]) / (discharge[-1] - discharge[0])).
\* Indexing None, a numpy scalar or an empty array raises, and the except
\* clause returns None; a zero divisor gives nan or an infinity.
Reduction(charge, discharge) ==
    IF charge.tag # "array" \/ discharge.tag # "array" THEN None
    ELSE IF Len(charge.val) = 0 \/ Len(discharge.val) = 0 THEN None
    ELSE Scalar(Div(Sub(charge.val[Len(charge.val)], charge.val[1]),
                    Sub(discharge.val[Len(discharge.val)], discharge.val[1])))

\* SOHCalculator.calculate_capacity_soh_velocity_threshold (lines 160-179)
ReductionOfEnds(charge, discharge) ==
    IF charge.tag # "array" \/ discharge.tag # "array" THEN None
    ELSE IF Len(charge.val) = 0 \/ Len(discharge.val) = 0 THEN None
    ELSE Scalar(Div(charge.val[Len(charge.val)], discharge.val[Len(discharge.val)]))

calculate_capacity_soh_velocity_threshold(charge, discharge) ==
    Reduction(charge, discharge)

\* SOHCalculator.calculate_energy_soh_flow_theory (lines 181-200)
ReductionEnergyWeighted(charge, discharge) ==
    LET r == Reduction(charge, discharge)
    IN  IF r.tag = "scalar" THEN Scalar(Mul(r.val[1], Num(2, 5))) ELSE r

calculate_energy_soh_flow_theory(charge, discharge) ==
    Reduction(charge, discharge)

\* the body shared by calculate_capacity_soh (lines 21-54) and
\* calculate_energy_soh (lines 56-89): window, integrate, validate, reduce.
\* The record keeps the intermediate values of the call.
Pipeline(op, q, time, cfg) ==
    LET w   == apply_voltage_window(Floats(q), cfg)
        cd  == integrate_charge_discharge(w, Floats(time))
        ok  == validate_cutoff_conditions(cd[1], cd[2], cfg)
        red == IF op = "calculate_capacity_soh"
               THEN calculate_capacity_soh_velocity_threshold(cd[1], cd[2])
               ELSE calculate_energy_soh_flow_theory(cd[1], cd[2])
    IN  [op        |-> op,
         q         |-> q,
         time      |-> time,
         charge    |-> cd[1],
         discharge |-> cd[2],
         valid     |-> ok,
         reduced   |-> ok,
         exc       |-> "none",
         ret       |-> IF ok THEN red ELSE None]

PipelineRaising(q, time, cfg) ==
    LET r == Pipeline("calculate_capacity_soh", q, time, cfg)
    IN  IF Len(q) # Len(time) THEN [r EXCEPT !.exc = "ValueError"] ELSE r

calculate_capacity_soh(q, time, cfg) == Pipeline("calculate_capacity_soh", q, time, cfg)

calculate_energy_soh(q, time, cfg) == Pipeline("calculate_energy_soh", q, time, cfg)


-----------------------------------------------------------------------------
(* SOHCalculator: inputs tried and the operations; a behaviour makes one call *)

MaxSohLen == 3     \* longest quantity series and time axis (besides the scenario)
MaxQ == 2          \* largest sample of a quantity series
MaxAccLen == 2     \* longest accumulator array handed to a stage directly

\* the end-to-end capacity scenario
ScenarioCapacity == <<0, 10, 20, 30, 40>>

ScenarioTime == <<0, 1, 2, 3, 4>>

SohSeries == SeqsUpTo(0..MaxQ, MaxSohLen) \cup {ScenarioCapacity}

TimeAxes == {[i \in 1..n |-> i - 1] : n \in 0..MaxSohLen} \cup {ScenarioTime}

\* accumulator arrays for direct calls of a stage
AccArrays == {Arr(s) : s \in SeqsUpTo({R(-1), R(0), R(1), NaN}, MaxAccLen)}

\* self.config: a ConfigHandler (as SOHCalculator.__init__ declares and main()
\* passes), or a dict of settings (as the test suite passes)
DictConfig(lo, hi, cc, cd) ==
    [kind |-> "dict", voltage_window |-> <<lo, hi>>,
     cutoff_charge |-> cc, cutoff_discharge |-> cd]

SohConfigs ==
    {[kind |-> "ConfigHandler", voltage_window |-> <<NaN, NaN>>,
      cutoff_charge |-> NaN, cutoff_discharge |-> NaN],
     DictConfig(Inf(-1), Inf(1), Inf(-1), Inf(-1)),
     DictConfig(Inf(-1), Inf(1), R(0), R(0)),
     DictConfig(R(0), R(2), Inf(-1), R(0)),
     DictConfig(Inf(-1), Inf(1), R(1), Inf(-1))}

StageCall(op, charge, discharge, valid, ret) ==
    [op |-> op, q |-> <<>>, time |-> <<>>, charge |-> charge, discharge |-> discharge,
     valid |-> valid, reduced |-> FALSE, exc |-> "none", ret |-> ret]

IdleSoh == StageCall("idle", None, None, FALSE, None)

\* series as the voltage window leaves them: samples, some replaced by nan
WindowedSeries == SeqsUpTo({R(0), R(1), R(2), NaN}, MaxSohLen)

\* a direct call of apply_voltage_window
ApplyVoltageWindow ==
    /\ soh_call.op = "idle"
    /\ \E q \in SohSeries :
          soh_call' = [StageCall("apply_voltage_window", None, None, FALSE,
                                 apply_voltage_window(Floats(q), soh_config))
                       EXCEPT !.q = Floats(q)]
    /\ UNCHANGED <<dvVars, sm_call, pk_call, soh_config, moreVars, sysVars>>

\* a direct call of integrate_charge_discharge
IntegrateChargeDischarge ==
    /\ soh_call.op = "idle"
    /\ \E q \in WindowedSeries, time \in TimeAxes :
          LET cd == integrate_charge_discharge(Arr(q), Floats(time))
          IN  soh_call' = [StageCall("integrate_charge_discharge", cd[1], cd[2],
                                     FALSE, None)
                           EXCEPT !.q = q, !.time = Floats(time)]
    /\ UNCHANGED <<dvVars, sm_call, pk_call, soh_config, moreVars, sysVars>>

CalcCapacitySoh ==
    /\ soh_call.op = "idle"
    /\ \E q \in SohSeries, time \in TimeAxes :
          soh_call' = calculate_capacity_soh(q, time, soh_config)
    /\ UNCHANGED <<dvVars, sm_call, pk_call, soh_config, moreVars, sysVars>>

CalcEnergySoh ==
    /\ soh_call.op = "idle"
    /\ \E q \in SohSeries, time \in TimeAxes :
          soh_call' = calculate_energy_soh(q, time, soh_config)
    /\ UNCHANGED <<dvVars, sm_call, pk_call, soh_config, moreVars, sysVars>>

ValidateCutoff ==
    /\ soh_call.op = "idle"
    /\ \E c \in AccArrays, d \in AccArrays :
          soh_call' = StageCall("validate_cutoff_conditions", c, d,
                                validate_cutoff_conditions(c, d, soh_config), None)
    /\ UNCHANGED <<dvVars, sm_call, pk_call, soh_config, moreVars, sysVars>>

ReduceCapacity ==
    /\ soh_call.op = "idle"
    /\ \E c \in AccArrays, d \in AccArrays :
          soh_call' = StageCall("calculate_capacity_soh_velocity_threshold", c, d, FALSE,
                                calculate_capacity_soh_velocity_threshold(c, d))
    /\ UNCHANGED <<dvVars, sm_call, pk_call, soh_config, moreVars, sysVars>>

ReduceEnergy ==
    /\ soh_call.op = "idle"
    /\ \E c \in AccArrays, d \in AccArrays :
          soh_call' = StageCall("calculate_energy_soh_flow_theory", c, d, FALSE,
                                calculate_energy_soh_flow_theory(c, d))
    /\ UNCHANGED <<dvVars, sm_call, pk_call, soh_config, moreVars, sysVars>>

-----------------------------------------------------------------------------
(* Direct calls of _smooth and of the detectors; a behaviour makes one call *)

SmData == SeqsUpTo(0..MaxVal, MaxSmLen)

SmWindows == (-1)..(MaxSmLen + 1)

IdleSmooth == [data |-> <<>>, window_size |-> 1, called |-> FALSE, out |-> Ok(<<>>)]

Smooth ==
    /\ ~sm_call.called
    /\ \E d \in SmData, w \in SmWindows :
          sm_call' = [data |-> Floats(d), window_size |-> w, called |-> TRUE,
                      out |-> _smooth(Floats(d), w)]
    /\ UNCHANGED <<dvVars, pk_call, sohVars, moreVars, sysVars>>

\* a curve with the heights h at every second sample of a zero baseline
PeakTrain(h) ==
    [i \in 1..(2 * Len(h) + 1) |-> IF i % 2 = 0 THEN h[i \div 2] ELSE 0]

\* every short curve, and every peak train
Curves ==
    SeqsUpTo(0..MaxPeak, MaxCurveLen)
    \cup {PeakTrain(h) : h \in SeqsUpTo(0..MaxPeak, MaxPeaks)}

PkConfigs == {[DefaultConfig EXCEPT !.dv_window_size = w] : w \in 1..MaxWin}

IdlePeaks == [mode |-> "idle", y |-> <<>>, out |-> <<>>]

DetectLamPe ==
    /\ pk_call.mode = "idle"
    /\ \E y \in Curves :
          pk_call' = [mode |-> "lam_pe", y |-> Floats(y),
                      out |-> _detect_lam_pe(Floats(y), config)]
    /\ UNCHANGED <<voltage, current, soc, dv_curve_, degradation_modes_, config,
                   analyzer, dv, dv_call, sm_call, sohVars, moreVars, sysVars>>

DetectLamNe ==
    /\ pk_call.mode = "idle"
    /\ \E y \in Curves :
          pk_call' = [mode |-> "lam_ne", y |-> Floats(y),
                      out |-> _detect_lam_ne(Floats(y), config)]
    /\ UNCHANGED <<voltage, current, soc, dv_curve_, degradation_modes_, config,
                   analyzer, dv, dv_call, sm_call, sohVars, moreVars, sysVars>>

DetectLli ==
    /\ pk_call.mode = "idle"
    /\ \E y \in Curves :
          pk_call' = [mode |-> "lli", y |-> Floats(y),
                      out |-> _detect_lli(Floats(y), config)]
    /\ UNCHANGED <<voltage, current, soc, dv_curve_, degradation_modes_, config,
                   analyzer, dv, dv_call, sm_call, sohVars, moreVars, sysVars>>

-----------------------------------------------------------------------------
(* database_manager.py *)

MaxTs == 10        \* latest timestamp of a measurement (a two-digit clock reading)
MaxRows == 3       \* most rows the measurement table is let grow to

\* a Python value that is None
NoValue == [k |-> "None", n |-> 0, d |-> 1]

\* Measurement(timestamp, soh, capacity, energy); a timestamp is a clock
\* reading or 0 for None, the other fields are floats or None
Measurement(ts, soh, capacity, energy) ==
    [timestamp |-> ts, soh |-> soh, capacity |-> capacity, energy |-> energy]

validate_measurement(m) ==
    IF m.timestamp = 0 \/ m.soh = NoValue \/ m.capacity = NoValue \/ m.energy = NoValue
    THEN FALSE
    ELSE IF Lt(m.soh, R(0)) \/ Gt(m.soh, R(1)) THEN FALSE
    ELSE IF Lt(m.capacity, R(0)) THEN FALSE
    ELSE IF Lt(m.energy, R(0)) THEN FALSE
    ELSE TRUE

\* datetime.isoformat(): fixed-width text, here the two digits of the reading
isoformat(ts) == <<ts \div 10, ts % 10>>

\* datetime.fromisoformat(): the reading a text stands for
fromisoformat(text) == text[1] * 10 + text[2]

\* SQLite's comparison of two TEXT values: character by character
TextLe(a, b) == a[1] < b[1] \/ (a[1] = b[1] /\ a[2] <= b[2])

\* the row an INSERT writes (the id column is the row's position in the table)
RowOf(m) ==
    [timestamp |-> isoformat(m.timestamp), soh |-> m.soh,
     capacity |-> m.capacity, energy |-> m.energy]

\* a REAL NOT NULL column refuses NaN, which SQLite binds as NULL
Insertable(m) == m.soh.k # "nan" /\ m.capacity.k # "nan" /\ m.energy.k # "nan"

\* the rows a SELECT with the WHERE clause built from the two bounds yields,
\* 0 standing for a bound that is None
Selected(rows, start_timestamp, end_timestamp) ==
    SelectSeq(rows, LAMBDA row :
        /\ (start_timestamp # 0 => TextLe(isoformat(start_timestamp), row.timestamp))
        /\ (end_timestamp # 0 => TextLe(row.timestamp, isoformat(end_timestamp))))

\* the Measurement objects built from fetched rows
MeasurementsOf(rows) ==
    [i \in 1..Len(rows) |->
        Measurement(fromisoformat(rows[i].timestamp), rows[i].soh,
                    rows[i].capacity, rows[i].energy)]

\* all(values[i] < values[i-1] for i in range(1, len(values))), not strictly
DegradationOrTie(values) ==
    \A i \in 2..Len(values) : Le(values[i], values[i - 1])

\* all(values[i] < values[i-1] for i in range(1, len(values)))
Degradation(values) ==
    \A i \in 2..Len(values) : Lt(values[i], values[i - 1])

\* detect_aging_patterns(measurements): the (flag, message) pair returned
detect_aging_patterns(measurements) ==
    IF Len(measurements) < 5
    THEN <<FALSE, "Insufficient data">>
    ELSE LET soh_values == [i \in 1..Len(measurements) |-> measurements[i].soh]
             capacity_values == [i \in 1..Len(measurements) |-> measurements[i].capacity]
             energy_values == [i \in 1..Len(measurements) |-> measurements[i].energy]
         IN  IF /\ Degradation(soh_values)
                /\ Degradation(capacity_values)
                /\ Degradation(energy_values)
             THEN <<TRUE, "Aging pattern detected">>
             ELSE <<FALSE, "No aging pattern detected">>

IdleDb ==
    [op |-> "idle", exc |-> "none", m |-> Measurement(0, NoValue, NoValue, NoValue),
     start |-> 0, end |-> 0, ret |-> <<>>, before |-> <<>>,
     measurements |-> <<>>, pattern |-> <<FALSE, "">>]

\* DatabaseManager(): no connection, a free lock; the table of the database
\* file soh_database.db is whatever earlier managers left in it
NewDatabaseManager(table) ==
    [conn |-> "None", lock |-> "free", table |-> table, stored |-> <<>>,
     call |-> IdleDb]

-----------------------------------------------------------------------------
(* config_handler.py, and the constructors of the other services *)

MaxRangeTop == 3   \* largest upper end of a voltage range tried

\* a Python value that is None, a dict as the function from its keys, or a
\* list as the sequence of its items
NoDict == [tag |-> "None", val |-> <<>>]

Dict(d) == [tag |-> "dict", val |-> d]

List(l) == [tag |-> "list", val |-> l]

\* `not value`: None, the empty dict and the empty list are false
Falsy(value) == value.tag = "None" \/ DOMAIN value.val = {}

\* parameters['voltage_range'] = voltage_ranges
SetVoltageRange(parameters, voltage_ranges) ==
    Dict([key \in DOMAIN parameters.val \cup {"voltage_range"} |->
            IF key = "voltage_range" THEN voltage_ranges ELSE parameters.val[key]])

\* the contents of the parameters file: none, text that is not JSON, or the
\* JSON text of a dict or of a list
NoFile == [tag |-> "missing", val |-> NoDict]

BadFile == [tag |-> "invalid", val |-> NoDict]

JsonFile(value) == [tag |-> "json", val |-> value]

\* ConfigHandler(): nothing loaded, a free lock, no call under way
NewConfigHandler(file) ==
    [parameters |-> NoDict, file |-> file, lock |-> "free", pc |-> "idle",
     op |-> "idle", voltage_ranges |-> <<>>, exc |-> "none"]

-----------------------------------------------------------------------------
(* data_acquisition.py *)

BUFFER_SIZE == 1000

NumThreads == 2    \* threads calling buffer_data
MaxExtra == 2      \* samples buffered beyond BUFFER_SIZE
MaxStreamed == 3   \* samples the streaming loop is followed for

Threads == 1..NumThreads

\* self.buffer.pop(0) when the buffer has outgrown BUFFER_SIZE, taking the newest
EvictNewest(buffer) ==
    IF Len(buffer) > BUFFER_SIZE THEN SubSeq(buffer, 1, Len(buffer) - 1) ELSE buffer

\* lines 123-124: self.buffer.pop(0) when the buffer has outgrown BUFFER_SIZE
Evict(buffer) ==
    IF Len(buffer) > BUFFER_SIZE THEN Tail(buffer) ELSE buffer

IdleAcq == [op |-> "idle", can_ok |-> FALSE, obd |-> "none", ret |-> FALSE,
            was |-> "DISCONNECTED"]

\* DataAcquisition(): nothing connected, an empty buffer, a free lock; pc is
\* where each thread stands in buffer_data, arrived counts the samples
\* appended and last_can is how the latest connect_to_can_bus() ended
NewDataAcquisition ==
    [can_bus |-> "None", obd_connection |-> "None", buffer |-> <<>>,
     lock |-> 0, connection_status |-> "DISCONNECTED",
     pc |-> [th \in Threads |-> "idle"], arrived |-> 0, last_can |-> "none",
     call |-> IdleAcq]

-----------------------------------------------------------------------------
(* measurement_controller.py *)

\* the config handlers and data acquisition objects a controller is built
\* over: the classes of this repository, which define none of the methods the
\* controller calls on them, and objects that do define them
ConfigHandlers == {"ConfigHandler", "with get_serial_port etc."}

DataAcquisitions == {"DataAcquisition", "with read_voltage etc."}

NoChecks == [voltage |-> "none", temperature |-> "none", balancing |-> "none"]

\* MeasurementController(config_handler, data_acquisition) at the start of
\* main(): pc is the statement of main() to run next, checks holds what the
\* three checks answered in the current round of the loop, terminated_in
\* holds the checks of the round terminate_session() was called in
NewController(c, a) ==
    [config_handler |-> c, data_acquisition |-> a,
     charging_session_status |-> "INITIATED", serial_connection |-> "None",
     pc |-> "initiate", checks |-> NoChecks, terminate_called |-> FALSE,
     terminated_in |-> NoChecks, rounds |-> 0]

-----------------------------------------------------------------------------
(* Specifications *)

\* the four services as their constructors leave them (filled in below)
InitServices ==
    /\ db = NewDatabaseManager(<<>>)
    /\ handler = NewConfigHandler(NoFile)
    /\ acq = NewDataAcquisition
    /\ ctl = NewController("ConfigHandler", "DataAcquisition")

InitDV ==
    /\ voltage = <<>>
    /\ current = <<>>
    /\ soc = <<>>
    /\ dv_curve_ = None
    /\ degradation_modes_ = NoModes
    /\ analyzer = "none"
    /\ dv = None
    /\ dv_call = IdleCall

InitIdle ==
    /\ InitDV
    /\ sm_call = IdleSmooth
    /\ pk_call = IdlePeaks
    /\ soh_call = IdleSoh
    /\ nf_call = IdleNormalize
    /\ runs = NoRuns
    /\ InitServices

\* one DVAnalyzer from construction on, under the config of the module
Init ==
    /\ InitIdle
    /\ config = DefaultConfig
    /\ soh_config = DictConfig(Inf(-1), Inf(1), Inf(-1), Inf(-1))

NextDV ==
    \/ Construct
    \/ calculate_dv_curve
    \/ identify_again
    \/ \E c \in ConfigSet : SetConfig(c)

SpecDV == Init /\ [][NextDV]_vars

\* every operation of one DVAnalyzer, on the scenario and its neighbours
NextRun ==
    \/ ConstructRun
    \/ calculate_dv_curve
    \/ identify_again
    \/ identify_degradation_modes
    \/ detect_lam_pe
    \/ detect_lam_ne
    \/ detect_lli
    \/ \E f \in RunFeatures : Normalize(f)
    \/ \E c \in RunConfigs : SetConfig(c)

SpecRun == Init /\ [][NextRun]_vars

\* normalize_features applied to every feature vector tried
NfVectors == {Floats(f) : f \in SeqsUpTo((-1)..MaxNfVal, MaxNfLen)}

NextNormalize == \E f \in NfVectors : Normalize(f)

SpecNormalize == Init /\ [][NextNormalize]_vars

\* two analyses, each with its own arrays and settings, steps interleaved
InitPair ==
    /\ InitDV
    /\ sm_call = IdleSmooth
    /\ pk_call = IdlePeaks
    /\ soh_call = IdleSoh
    /\ nf_call = IdleNormalize
    /\ InitServices
    /\ config = DefaultConfig
    /\ soh_config = DictConfig(Inf(-1), Inf(1), Inf(-1), Inf(-1))
    /\ runs \in [1..2 -> PairRuns]

NextPair ==
    \E i \in 1..2 :
        \/ RunConfigure(i)
        \/ RunConstruct(i)
        \/ RunCalculateDv(i)
        \/ RunIdentify(i)

SpecPair == InitPair /\ [][NextPair]_vars

\* _smooth applied to every array and window size tried
NextSmooth == Smooth

SpecSmooth == Init /\ [][NextSmooth]_vars

\* a detector applied to every curve tried, under each window size
InitPeaks ==
    /\ InitIdle
    /\ config \in PkConfigs
    /\ soh_config = DictConfig(Inf(-1), Inf(1), Inf(-1), Inf(-1))

NextPeaks ==
    \/ DetectLamPe
    \/ DetectLamNe
    \/ DetectLli

SpecPeaks == InitPeaks /\ [][NextPeaks]_vars

\* a SOHCalculator holding each of the configurations tried
InitSOH ==
    /\ InitIdle
    /\ config = DefaultConfig
    /\ soh_config \in SohConfigs

NextSOH ==
    \/ CalcCapacitySoh
    \/ CalcEnergySoh
    \/ ValidateCutoff
    \/ ReduceCapacity
    \/ ReduceEnergy
    \/ ApplyVoltageWindow
    \/ IntegrateChargeDischarge

SpecSOH == InitSOH /\ [][NextSOH]_vars


-----------------------------------------------------------------------------
(* Claims about DVAnalyzer (SpecDV) *)

SameLengths == Len(voltage) = Len(current) /\ Len(voltage) = Len(soc)

SomeCurrentNotPositive == \E i \in 1..Len(current) : ~Gt(current[i], R(0))

SocDecreases == \E i \in 1..(Len(soc) - 1) : Lt(soc[i + 1], soc[i])

\* C1: constructing a DVAnalyzer raises InvalidInputError exactly when the
\* three arrays do not all have the same length, or some current sample is
\* <= 0, or SOC decreases between two consecutive samples; after the error no
\* curve and no mode mapping exists; every other triple is accepted.
C1_ConstructorValidates ==
    analyzer # "none" =>
        /\ (analyzer = "failed") <=> (~SameLengths \/ SomeCurrentNotPositive \/ SocDecreases)
        /\ analyzer = "failed" =>
              /\ dv_call = [op |-> "__init__", exc |-> "InvalidInputError", ret |-> None]
              /\ dv_curve_ = None
              /\ degradation_modes_ = NoModes
              /\ dv = None
        /\ (analyzer = "ready" /\ dv_call.op = "__init__") => dv_call.exc = "none"

\* a triple rejected for its SOC alone
C1_Witness ==
    /\ analyzer = "failed"
    /\ Len(voltage) = MaxLen
    /\ SameLengths
    /\ ~SomeCurrentNotPositive
    /\ SocDecreases

ConstantPositiveSocStep ==
    /\ Len(soc) >= 2
    /\ Gt(soc[2], soc[1])
    /\ \A i \in 1..(Len(soc) - 1) : Sub(soc[i + 1], soc[i]) = Sub(soc[2], soc[1])

\* with a constant SOC step, voltage is linear in SOC iff its step is constant
VoltageLinearInSoc ==
    \A i \in 1..(Len(voltage) - 1) :
        Sub(voltage[i + 1], voltage[i]) = Sub(voltage[2], voltage[1])

\* C8: for a valid triple whose SOC has a constant positive step and whose
\* voltage is linear in SOC, the raw dV/dSOC curve (before smoothing) has the
\* length of the input and at every index, the two ends included, the value
\* of the voltage-vs-SOC slope.
C8_RawCurveIsTheSlope ==
    (/\ analyzer = "ready"
     /\ dv_call.op # "__init__"
     /\ ConstantPositiveSocStep
     /\ VoltageLinearInSoc)
    => dv = Arr([i \in 1..Len(voltage) |->
                    Div(Sub(voltage[2], voltage[1]), Sub(soc[2], soc[1]))])

C8_Witness ==
    /\ analyzer = "ready"
    /\ dv_call.op = "calculate_dv_curve"
    /\ Len(voltage) = 3
    /\ ConstantPositiveSocStep
    /\ VoltageLinearInSoc
    /\ voltage[2] # voltage[1]
    /\ dv.tag = "array"

\* C10: with the config unchanged, a second calculate_dv_curve (or a second
\* _identify_degradation_modes) on the same analyzer leaves the curve and the
\* index sets of lam_pe, lam_ne and lli as the first call made them.
C10_ClassificationIdempotent ==
    [][(/\ dv_curve_.tag = "array"
        /\ config' = config
        /\ dv_call'.op \in {"calculate_dv_curve", "_identify_degradation_modes"}
        /\ dv_call'.exc = "none")
       => (dv_curve_' = dv_curve_ /\ degradation_modes_' = degradation_modes_)]_vars

\* a curve with a detected peak, classified a second time
C10_Witness ==
    /\ dv_call.op = "_identify_degradation_modes"
    /\ dv_curve_.tag = "array"
    /\ Len(degradation_modes_.lam_pe) > 0

StrictlyIncreasing(s) == \A i \in 1..(Len(s) - 1) : s[i] < s[i + 1]

IndicesWithin(s, last) == \A i \in 1..Len(s) : 0 <= s[i] /\ s[i] <= last

\* C22: after calculate_dv_curve on n samples with smoothing window w the
\* curve has n - w + 1 samples, the mode mapping has the keys lam_pe, lam_ne
\* and lli, and each of the three index sets is strictly increasing and holds
\* only positions 0 .. n - w of the curve.
C22_CurveLengthAndIndexRange ==
    (analyzer = "ready" /\ dv_call.op = "calculate_dv_curve" /\ dv_call.exc = "none")
    => LET n == Len(voltage)
           w == config.dv_window_size
       IN  /\ dv_curve_.tag = "array"
           /\ Len(dv_curve_.val) = n - w + 1
           /\ degradation_modes_.tag = "dict"
           /\ \A s \in {degradation_modes_.lam_pe, degradation_modes_.lam_ne,
                         degradation_modes_.lli} :
                 StrictlyIncreasing(s) /\ IndicesWithin(s, n - w)

-----------------------------------------------------------------------------
(* Claims about the operations of one DVAnalyzer (SpecRun) *)

IsScenario ==
    /\ analyzer = "ready"
    /\ voltage = ScenarioVoltage
    /\ current = ScenarioCurrent
    /\ soc = ScenarioSoc
    /\ config \in ScenarioConfigs

\* C11: for voltage = [3.0, 3.1, 3.2, 3.3, 3.4], current = [1,1,1,1,1], SOC =
\* [0.0, 0.2, 0.4, 0.6, 0.8], window size 1 and all three thresholds above
\* 0.5, calculate_dv_curve returns a curve of 5 samples all equal to 0.5, and
\* the index sets of lam_pe, lam_ne and lli are all empty.
C11_ScenarioFlatCurveNoModes ==
    (IsScenario /\ dv_call.op = "calculate_dv_curve")
    => /\ dv_call.exc = "none"
       /\ dv_call.ret = Arr([i \in 1..5 |-> Num(1, 2)])
       /\ dv_curve_ = dv_call.ret
       /\ degradation_modes_ =
             [tag |-> "dict", lam_pe |-> <<>>, lam_ne |-> <<>>, lli |-> <<>>]

C11_Witness ==
    /\ IsScenario
    /\ dv_call.op = "calculate_dv_curve"
    /\ config.lam_ne_threshold = Num(3, 5)
    /\ Len(dv_curve_.val) = 5

\* a step of an operation of the DVAnalyzer
AnalyzerOperation ==
    \/ ConstructRun
    \/ calculate_dv_curve
    \/ identify_again
    \/ identify_degradation_modes
    \/ detect_lam_pe
    \/ detect_lam_ne
    \/ detect_lli
    \/ \E f \in RunFeatures : Normalize(f)

\* C18: no DVAnalyzer operation (construction, calculate_dv_curve,
\* identify_degradation_modes, detect_lam_pe, detect_lam_ne, detect_lli,
\* normalize_features) changes a field of the config, and none changes the
\* voltage, current and SOC arrays the analyzer was constructed with.
C18_OperationsLeaveConfigAndInputs ==
    [][AnalyzerOperation =>
          /\ config' = config
          /\ analyzer # "none" =>
                (voltage' = voltage /\ current' = current /\ soc' = soc)]_vars

\* the settings of the run still in place after the curve was computed, the
\* modes read and a feature vector normalized
C18_Witness ==
    /\ dv_call.op = "detect_lam_ne"
    /\ dv_call.exc = "none"
    /\ nf_call.called
    /\ config = [DefaultConfig EXCEPT !.dv_window_size = 1]
    /\ voltage = [ScenarioVoltage EXCEPT ![3] = Num(34, 10)]

AccessorKey ==
    CASE dv_call.op = "detect_lam_pe" -> "lam_pe"
      [] dv_call.op = "detect_lam_ne" -> "lam_ne"
      [] OTHER                        -> "lli"

\* C26: before calculate_dv_curve has completed (no curve stored),
\* identify_degradation_modes returns None and detect_lam_pe, detect_lam_ne
\* and detect_lli raise instead of returning an empty list; once it has
\* completed, identify_degradation_modes returns the mapping and each
\* detect_* accessor returns the entry of its name in that mapping.
C26_AccessorsDependOnCallOrder ==
    /\ dv_call.op = "identify_degradation_modes" =>
          /\ dv_call.exc = "none"
          /\ dv_curve_ = None => dv_call.ret = NoModes
          /\ dv_curve_ # None =>
                (dv_call.ret.tag = "dict" /\ dv_call.ret = degradation_modes_)
    /\ dv_call.op \in {"detect_lam_pe", "detect_lam_ne", "detect_lli"} =>
          /\ dv_curve_ = None =>
                (dv_call.exc = "AttributeError" /\ dv_call.ret = None)
          /\ dv_curve_ # None =>
                /\ dv_call.exc = "none"
                /\ dv_call.ret = Arr(degradation_modes_[AccessorKey])

\* an accessor that returned a reported index
C26_Witness ==
    /\ dv_call.op = "detect_lam_pe"
    /\ dv_call.exc = "none"
    /\ dv_curve_ # None
    /\ Len(dv_call.ret.val) > 0

-----------------------------------------------------------------------------
(* Claims about two analyses side by side (SpecPair) *)

\* C19: each of two interleaved analyses, with its own arrays and its own
\* settings, ends with the curve and the index sets it would produce alone
\* under its own settings.
C19_AnalysesDoNotInterfere ==
    \A i \in DOMAIN runs :
        runs[i].pc = "done" =>
            LET alone == _calculate_dv(runs[i].voltage, runs[i].soc, runs[i].cfg)
            IN  /\ runs[i].dv_curve_ = Arr(alone.val)
                /\ runs[i].degradation_modes_ =
                      _identify_degradation_modes(alone.val, runs[i].cfg)

-----------------------------------------------------------------------------
(* Claims about normalize_features (SpecNormalize) *)

AllFeaturesEqual ==
    \A i \in 1..Len(nf_call.features) : nf_call.features[i] = nf_call.features[1]

\* C16: normalize_features is min-max scaling.  For a non-empty vector of
\* finite values that are not all equal, every output value lies in [0,1],
\* the minimum maps to 0, the maximum maps to 1 and the order between
\* elements is preserved; when all values are equal every output value is
\* nan and no exception is raised.
C16_MinMaxScaling ==
    (nf_call.called /\ Len(nf_call.features) > 0)
    => LET f == nf_call.features
           o == nf_call.out.val
           n == Len(nf_call.features)
       IN  /\ nf_call.out.exc = "none"
           /\ Len(o) = n
           /\ AllFeaturesEqual => \A i \in 1..n : o[i] = NaN
           /\ ~AllFeaturesEqual =>
                 /\ \A i \in 1..n : Ge(o[i], R(0)) /\ Le(o[i], R(1))
                 /\ \A i \in 1..n : (\A j \in 1..n : Le(f[i], f[j])) => o[i] = R(0)
                 /\ \A i \in 1..n : (\A j \in 1..n : Ge(f[i], f[j])) => o[i] = R(1)
                 /\ \A i, j \in 1..n : Lt(f[i], f[j]) <=> Lt(o[i], o[j])

\* a vector with a value strictly between its minimum and its maximum
C16_Witness ==
    /\ nf_call.called
    /\ Len(nf_call.features) = MaxNfLen
    /\ nf_call.out.exc = "none"
    /\ \E i \in 1..Len(nf_call.out.val) :
          Gt(nf_call.out.val[i], R(0)) /\ Lt(nf_call.out.val[i], R(1))
    /\ nf_call.features[1] = R(-1)

-----------------------------------------------------------------------------
(* Claims about _smooth (SpecSmooth) *)

RECURSIVE SumOf(_, _, _)
SumOf(data, lo, hi) ==
    IF lo > hi THEN R(0) ELSE Add(data[lo], SumOf(data, lo + 1, hi))

\* C6: for an array of n samples and 1 <= w <= n, _smooth returns exactly
\* n - (w - 1) samples, the i-th being the mean of samples i .. i+w-1; for
\* w = 1 the output equals the input.
C6_SmoothShortensByWindow ==
    (sm_call.called /\ 1 <= sm_call.window_size /\ sm_call.window_size <= Len(sm_call.data))
    => LET w == sm_call.window_size
           n == Len(sm_call.data)
       IN  /\ sm_call.out.exc = "none"
           /\ Len(sm_call.out.val) = n - (w - 1)
           /\ \A i \in 1..(n - (w - 1)) :
                 sm_call.out.val[i] = Div(SumOf(sm_call.data, i, i + w - 1), R(w))
           /\ w = 1 => sm_call.out.val = sm_call.data

C6_Witness ==
    /\ sm_call.called
    /\ sm_call.window_size = 2
    /\ Len(sm_call.data) = MaxSmLen
    /\ sm_call.data[1] # sm_call.data[2]
    /\ Len(sm_call.out.val) = MaxSmLen - 1

\* C7: smooth fails with InvalidInputError, and returns no array, whenever
\* window_size <= 0 or window_size > len(data).
C7_SmoothRejectsBadWindow ==
    (sm_call.called /\ (sm_call.window_size <= 0 \/ sm_call.window_size > Len(sm_call.data)))
    => sm_call.out.exc = "InvalidInputError"

-----------------------------------------------------------------------------
(* Claims about the detectors (SpecPeaks) *)

\* the curve a detector scans, and the threshold it scans with
Scanned == IF pk_call.mode = "lam_ne" THEN NegArr(pk_call.y) ELSE pk_call.y

ScanThreshold ==
    CASE pk_call.mode = "lam_pe" -> config.lam_pe_threshold
      [] pk_call.mode = "lam_ne" -> config.lam_ne_threshold
      [] OTHER                   -> config.lli_threshold

\* candidate peaks and reported peaks, as positions 1..n of the curve
CandidatePeaks == Candidates(Scanned, ScanThreshold)

KeptPeaks == {k + 1 : k \in Range(pk_call.out)}

NoTwoCloserThanMinDist ==
    \A i \in KeptPeaks, j \in KeptPeaks :
        i # j => Abs(i - j) >= config.dv_window_size

\* C9 as stated: no two reported indices are closer than the minimum
\* distance, and of any two candidate peaks within that distance the higher
\* one is kept and the other discarded.
C9_HigherOfAnyClosePairKept ==
    pk_call.mode # "idle" =>
        /\ NoTwoCloserThanMinDist
        /\ \A i \in CandidatePeaks, j \in CandidatePeaks :
              (/\ i # j
               /\ Abs(i - j) < config.dv_window_size
               /\ Gt(Scanned[i], Scanned[j]))
              => (i \in KeptPeaks /\ j \notin KeptPeaks)

\* C9 as amended: no two reported indices are closer than the minimum
\* distance, every reported index is a candidate peak, and a candidate is
\* discarded only when a reported peak at least as high lies within the
\* minimum distance of it.
C9_DiscardedOnlyNearHigherKept ==
    pk_call.mode # "idle" =>
        /\ NoTwoCloserThanMinDist
        /\ KeptPeaks \subseteq CandidatePeaks
        /\ \A j \in CandidatePeaks \ KeptPeaks :
              \E i \in KeptPeaks :
                 /\ Abs(i - j) < config.dv_window_size
                 /\ ~Lt(Scanned[i], Scanned[j])

\* three candidates in a chain: the middle one is discarded for the highest,
\* and the lowest, close to the middle one only, is kept
C9_Witness ==
    /\ pk_call.mode = "lam_pe"
    /\ Cardinality(CandidatePeaks) = 3
    /\ Cardinality(KeptPeaks) = 2
    /\ \E q \in CandidatePeaks \ KeptPeaks, r \in KeptPeaks :
          Abs(q - r) < config.dv_window_size /\ Gt(Scanned[q], Scanned[r])

\* |x|
AbsOf(x) == IF Lt(x, R(0)) THEN Neg(x) ELSE x

\* C17: the negative-electrode detector hands the peak scan the negated curve
\* and the absolute value of the configured lam_ne_threshold, so that it
\* reports exactly the troughs of the curve below lam_ne_threshold.
C17_LamNeScansWithAbsThreshold ==
    pk_call.mode = "lam_ne" =>
        /\ pk_call.out = indices(NegArr(pk_call.y), AbsOf(config.lam_ne_threshold),
                                 config.dv_window_size)
        /\ lam_ne_thres(config) = AbsOf(config.lam_ne_threshold)

-----------------------------------------------------------------------------
(* Claims about SOHCalculator (SpecSOH) *)

IsPipelineCall == soh_call.op \in {"calculate_capacity_soh", "calculate_energy_soh"}

IsReduceCall ==
    soh_call.op \in {"calculate_capacity_soh_velocity_threshold",
                     "calculate_energy_soh_flow_theory"}

\* C2: when the quantity series and its time axis differ in length, or are
\* empty, calculate_capacity_soh and calculate_energy_soh return None and no
\* exception escapes.
C2_LengthMismatchGivesNone ==
    (IsPipelineCall /\ (Len(soh_call.q) # Len(soh_call.time) \/ Len(soh_call.q) = 0))
    => (soh_call.exc = "none" /\ soh_call.ret = None)

C2_Witness ==
    /\ soh_call.op = "calculate_capacity_soh"
    /\ soh_config.kind = "dict"
    /\ Len(soh_call.q) > 0
    /\ Len(soh_call.time) > 0
    /\ Len(soh_call.q) # Len(soh_call.time)

SomeEntryBelowCutoff ==
    \/ \E i \in 1..Len(soh_call.charge.val) :
          Lt(soh_call.charge.val[i], soh_config.cutoff_charge)
    \/ \E i \in 1..Len(soh_call.discharge.val) :
          Lt(soh_call.discharge.val[i], soh_config.cutoff_discharge)

\* C3: with numeric cutoffs configured and charge and discharge accumulators
\* of one length (as integration yields them), validate_cutoff_conditions
\* returns False iff some charge entry is below cutoff_charge or some
\* discharge entry is below cutoff_discharge; the enclosing
\* calculate_*_soh returns None without reducing when it is False and runs
\* the reduction when it is True.
C3_CutoffGateAllOrNothing ==
    /\ (/\ soh_call.op = "validate_cutoff_conditions"
        /\ soh_config.kind = "dict"
        /\ Len(soh_call.charge.val) = Len(soh_call.discharge.val))
       => (soh_call.valid <=> ~SomeEntryBelowCutoff)
    /\ IsPipelineCall =>
          /\ soh_call.reduced <=> soh_call.valid
          /\ ~soh_call.valid => soh_call.ret = None
          /\ (soh_config.kind = "dict" /\ soh_call.charge.tag # "None")
                => (soh_call.valid <=> ~SomeEntryBelowCutoff)

\* rejected for a discharge entry alone
C3_Witness ==
    /\ soh_call.op = "validate_cutoff_conditions"
    /\ soh_config.kind = "dict"
    /\ Len(soh_call.charge.val) = MaxAccLen
    /\ Len(soh_call.discharge.val) = MaxAccLen
    /\ ~soh_call.valid
    /\ ~(\E i \in 1..Len(soh_call.charge.val) :
            Lt(soh_call.charge.val[i], soh_config.cutoff_charge))

\* C4 as stated: the reduction returns exactly 1.0 whenever the charge and
\* discharge accumulators are identical arrays.
C4_IdenticalGivesOne ==
    (IsReduceCall /\ soh_call.charge = soh_call.discharge)
    => soh_call.ret = Scalar(R(1))

NetOfCharge ==
    Sub(soh_call.charge.val[Len(soh_call.charge.val)], soh_call.charge.val[1])

\* C4 as amended: the reduction returns exactly 1.0 whenever the two
\* accumulators are identical non-empty arrays whose last value minus first
\* value is a finite number other than zero.
C4_IdenticalNonFlatGivesOne ==
    (/\ IsReduceCall
     /\ soh_call.charge = soh_call.discharge
     /\ Len(soh_call.charge.val) > 0
     /\ IsNum(NetOfCharge)
     /\ NetOfCharge # R(0))
    => soh_call.ret = Scalar(R(1))

C4_Witness ==
    /\ soh_call.op = "calculate_capacity_soh_velocity_threshold"
    /\ soh_call.charge = soh_call.discharge
    /\ Len(soh_call.charge.val) = MaxAccLen
    /\ IsNum(NetOfCharge)
    /\ NetOfCharge # R(0)
    /\ soh_call.ret = Scalar(R(1))

\* C5: calculate_capacity_soh on capacity = [0,10,20,30,40], time =
\* [0,1,2,3,4], with cutoffs that reject nothing and a voltage window that
\* excludes no sample, returns 1.0.
C5_ScenarioGivesOne ==
    (/\ soh_call.op = "calculate_capacity_soh"
     /\ soh_call.q = ScenarioCapacity
     /\ soh_call.time = ScenarioTime
     /\ soh_config = DictConfig(Inf(-1), Inf(1), Inf(-1), Inf(-1)))
    => soh_call.ret = Scalar(R(1))

\* C12: apply_voltage_window returns an array of the length of its input in
\* which every sample strictly below the lower bound or strictly above the
\* upper bound is nan and every sample inside the closed interval, the two
\* bounds included, is unchanged.
C12_WindowKeepsClosedInterval ==
    (soh_call.op = "apply_voltage_window" /\ soh_config.kind = "dict")
    => soh_call.ret =
         Arr([i \in 1..Len(soh_call.q) |->
                IF \/ Lt(soh_call.q[i], soh_config.voltage_window[1])
                   \/ Gt(soh_call.q[i], soh_config.voltage_window[2])
                THEN NaN ELSE soh_call.q[i]])

IsIntegrateCall ==
    /\ soh_call.op = "integrate_charge_discharge"
    /\ Len(soh_call.q) > 0
    /\ Len(soh_call.q) = Len(soh_call.time)

HasMarker == \E i \in 1..Len(soh_call.q) : soh_call.q[i] = NaN

AllDefined(a) == a.tag = "array" /\ \A i \in 1..Len(a.val) : IsNum(a.val[i])

\* C13: integration treats the samples the voltage window marked as gaps: the
\* accumulators it returns for a series with marked samples are arrays of the
\* length of the series whose entries, those after a gap included, are all
\* defined numbers.
C13_MarkersAreGaps ==
    (IsIntegrateCall /\ HasMarker)
    => /\ AllDefined(soh_call.charge)
       /\ AllDefined(soh_call.discharge)
       /\ Len(soh_call.charge.val) = Len(soh_call.q)
       /\ Len(soh_call.discharge.val) = Len(soh_call.q)

\* C14: for every non-empty series with a matching time axis,
\* integrate_charge_discharge returns two arrays of the length of the input:
\* charge is the cumulative trapezoidal integral of the signal, discharge that
\* of the negated signal (the pointwise negation of charge), both 0 at the
\* first sample.
C14_IntegrationGivesAccumulators ==
    (IsIntegrateCall /\ ~HasMarker)
    => /\ soh_call.charge = Arr(cumtrapz(soh_call.q, soh_call.time).val)
       /\ soh_call.discharge = Arr(NegArr(soh_call.charge.val))
       /\ Len(soh_call.charge.val) = Len(soh_call.q)
       /\ soh_call.charge.val[1] = R(0)
       /\ soh_call.discharge.val[1] = R(0)

NetOfDischarge ==
    Sub(soh_call.discharge.val[Len(soh_call.discharge.val)], soh_call.discharge.val[1])

\* C15: a degenerate division in the reduce stage (last minus first discharge
\* value equal to zero) gives None, the value calculate_capacity_soh and
\* calculate_energy_soh then return, rather than nan, an infinity or an
\* exception.
C15_DegenerateDivisionGivesNone ==
    (/\ IsReduceCall
     /\ Len(soh_call.charge.val) > 0
     /\ Len(soh_call.discharge.val) > 0
     /\ NetOfDischarge = R(0))
    => (soh_call.exc = "none" /\ soh_call.ret = None)

\* C20: the capacity-based and the energy-based variant are one pipeline: for
\* every pair of accumulators the two reductions return the same value, the
\* plain ratio with no weight applied; for equal quantity and time series
\* calculate_capacity_soh and calculate_energy_soh end the same way (the same
\* value, or both None).
C20_VariantsShareOnePipeline ==
    /\ IsReduceCall =>
          /\ soh_call.ret = calculate_capacity_soh_velocity_threshold(
                                soh_call.charge, soh_call.discharge)
          /\ soh_call.ret = calculate_energy_soh_flow_theory(
                                soh_call.charge, soh_call.discharge)
          /\ soh_call.ret = Reduction(soh_call.charge, soh_call.discharge)
    /\ IsPipelineCall =>
          LET cap == calculate_capacity_soh(soh_call.q, soh_call.time, soh_config)
              en  == calculate_energy_soh(soh_call.q, soh_call.time, soh_config)
          IN  /\ soh_call.ret = cap.ret
              /\ soh_call.ret = en.ret
              /\ cap.exc = en.exc
              /\ soh_call.exc = cap.exc

\* an energy reduction with a ratio other than 0, which a weight would change
C20_Witness ==
    /\ soh_call.op = "calculate_energy_soh_flow_theory"
    /\ Len(soh_call.charge.val) = MaxAccLen
    /\ soh_call.ret.tag = "scalar"
    /\ soh_call.ret = Scalar(R(-1))

\* C21: every SOH value the calculator returns, that is every result other
\* than None, of a reduction or of an entry point, lies in [0, 1].
C21_SohWithinUnitInterval ==
    ((IsReduceCall \/ IsPipelineCall) /\ soh_call.ret # None)
    => /\ soh_call.ret.tag = "scalar"
       /\ Ge(soh_call.ret.val[1], R(0))
       /\ Le(soh_call.ret.val[1], R(1))

-----------------------------------------------------------------------------
(* DatabaseManager: operations and specification *)

\* the analyzers and the calculator at rest, under the default settings
InitAnalysisIdle ==
    /\ InitDV
    /\ sm_call = IdleSmooth
    /\ pk_call = IdlePeaks
    /\ soh_call = IdleSoh
    /\ nf_call = IdleNormalize
    /\ runs = NoRuns
    /\ config = DefaultConfig
    /\ soh_config = DictConfig(Inf(-1), Inf(1), Inf(-1), Inf(-1))

\* timestamps tried: an early one and two that differ in the last digit only
Timestamps == {1, MaxTs - 1, MaxTs}

\* measurements tried: every timestamp (None too) with every kind of soh, and
\* one sound reading with every kind of capacity and energy
DbMeasurements ==
    {Measurement(ts, soh, R(1), R(1)) :
        ts \in Timestamps \cup {0},
        soh \in {NoValue, R(-1), R(0), Num(1, 2), R(2), NaN}}
    \cup {Measurement(1, Num(1, 2), c, e) :
            c \in {NoValue, R(-1), R(0), NaN}, e \in {NoValue, R(-1), R(0), NaN}}

\* connect(): open the file and create the table unless it exists
connect(d) ==
    [d EXCEPT !.conn = "open",
              !.call = [IdleDb EXCEPT !.op = "connect", !.before = d.table]]

\* disconnect(): close the connection if there is one
disconnect(d) ==
    [d EXCEPT !.conn = "None",
              !.call = [IdleDb EXCEPT !.op = "disconnect", !.before = d.table]]

\* store_measurement(measurement): validation comes before the lock; the
\* with block releases the lock however the statements in it end
store_measurement(d, m) ==
    LET c == [IdleDb EXCEPT !.op = "store_measurement", !.m = m, !.before = d.table]
    IN  IF ~validate_measurement(m)
        THEN [d EXCEPT !.call = [c EXCEPT !.exc = "InvalidMeasurementError"]]
        ELSE IF d.conn = "None"
        THEN [d EXCEPT !.lock = "free", !.call = [c EXCEPT !.exc = "AttributeError"]]
        ELSE IF ~Insertable(m)
        THEN [d EXCEPT !.lock = "free", !.call = [c EXCEPT !.exc = "IntegrityError"]]
        ELSE [d EXCEPT !.lock = "free",
                       !.table = Append(d.table, RowOf(m)),
                       !.stored = Append(d.stored, m),
                       !.call = c]

\* query_historical_data(start_timestamp, end_timestamp)
query_historical_data(d, start_timestamp, end_timestamp) ==
    LET c == [IdleDb EXCEPT !.op = "query_historical_data", !.start = start_timestamp,
                            !.end = end_timestamp, !.before = d.table]
    IN  IF d.conn = "None"
        THEN [d EXCEPT !.lock = "free", !.call = [c EXCEPT !.exc = "AttributeError"]]
        ELSE [d EXCEPT !.lock = "free",
                       !.call = [c EXCEPT !.ret =
                           MeasurementsOf(Selected(d.table, start_timestamp, end_timestamp))]]

\* a further DatabaseManager() over the same database file
NewManager ==
    /\ db.call.op # "idle"
    /\ db.table # <<>>
    /\ db' = NewDatabaseManager(db.table)
    /\ UNCHANGED <<analysisVars, handler, acq, ctl>>

Connect ==
    /\ db.lock = "free"
    /\ db' = connect(db)
    /\ UNCHANGED <<analysisVars, handler, acq, ctl>>

Disconnect ==
    /\ db.lock = "free"
    /\ db' = disconnect(db)
    /\ UNCHANGED <<analysisVars, handler, acq, ctl>>

StoreMeasurement ==
    /\ db.lock = "free"
    /\ Len(db.table) < MaxRows
    /\ \E m \in DbMeasurements : db' = store_measurement(db, m)
    /\ UNCHANGED <<analysisVars, handler, acq, ctl>>

QueryHistoricalData ==
    /\ db.lock = "free"
    /\ \E s \in Timestamps \cup {0}, e \in Timestamps \cup {0} :
           db' = query_historical_data(db, s, e)
    /\ UNCHANGED <<analysisVars, handler, acq, ctl>>

InitDB ==
    /\ InitAnalysisIdle
    /\ InitServices

NextDB ==
    \/ NewManager
    \/ Connect
    \/ Disconnect
    \/ StoreMeasurement
    \/ QueryHistoricalData

SpecDB == InitDB /\ [][NextDB]_vars

\* what the claims call a measurement to reject
Rejectable(m) ==
    \/ m.timestamp = 0 \/ m.soh = NoValue \/ m.capacity = NoValue \/ m.energy = NoValue
    \/ ~(Ge(m.soh, R(0)) /\ Le(m.soh, R(1)))
    \/ Lt(m.capacity, R(0))
    \/ Lt(m.energy, R(0))

\* C23: on a connected manager, store_measurement raises
\* InvalidMeasurementError for every measurement with a missing field, an soh
\* outside [0, 1], a negative capacity or a negative energy, and then the table
\* is as before and the lock is free; every other measurement adds exactly its
\* one row.
C23_StoreValidates ==
    (db.call.op = "store_measurement" /\ db.conn = "open")
    => IF Rejectable(db.call.m)
       THEN /\ db.call.exc = "InvalidMeasurementError"
            /\ db.table = db.call.before
            /\ db.lock = "free"
       ELSE /\ db.call.exc = "none"
            /\ db.table = Append(db.call.before, RowOf(db.call.m))

\* C24: a query on a connected manager returns exactly the measurements stored
\* through the manager so far whose timestamp lies within the inclusive bounds,
\* an absent bound imposing no limit; so a manager that connected and stored
\* one measurement gets exactly 1 result from a query without bounds.
C24_QueryReturnsStored ==
    (db.call.op = "query_historical_data" /\ db.conn = "open")
    => /\ db.call.exc = "none"
       /\ db.call.ret =
            SelectSeq(db.stored, LAMBDA m :
                /\ (db.call.start # 0 => db.call.start <= m.timestamp)
                /\ (db.call.end # 0 => m.timestamp <= db.call.end))

-----------------------------------------------------------------------------
(* detect_aging_patterns on the measurement lists tried *)

MaxAging == 6      \* longest measurement list handed to detect_aging_patterns

\* the falling series n, n-1, .., 1
Falling(n) == [i \in 1..n |-> n + 1 - i]

\* the value series tried for one field of n measurements: the falling one,
\* and it with its k-th step replaced by a tie or by a rise
FieldSeries(n) ==
    {Floats(Falling(n))}
    \cup {Floats([i \in 1..n |-> IF i = k + 1 THEN n + 1 - k ELSE n + 1 - i]) : k \in 1..(n - 1)}
    \cup {Floats([i \in 1..n |-> IF i = k + 1 THEN n + 2 - k ELSE n + 1 - i]) : k \in 1..(n - 1)}

AgingLists(n) ==
    {[i \in 1..n |-> Measurement(i, s[i], c[i], e[i])] :
        s \in FieldSeries(n), c \in FieldSeries(n), e \in FieldSeries(n)}

DetectAgingPatterns ==
    /\ db.call.op = "idle"
    /\ \E n \in 0..MaxAging : \E ms \in AgingLists(n) :
           db' = [db EXCEPT !.call = [IdleDb EXCEPT !.op = "detect_aging_patterns",
                                                    !.measurements = ms,
                                                    !.pattern = detect_aging_patterns(ms)]]
    /\ UNCHANGED <<analysisVars, handler, acq, ctl>>

NextAging == DetectAgingPatterns

SpecAging == InitDB /\ [][NextAging]_vars

\* each of soh, capacity and energy falls between every two consecutive measurements
AllFalling(ms) ==
    \A i \in 1..(Len(ms) - 1) :
        /\ Lt(ms[i + 1].soh, ms[i].soh)
        /\ Lt(ms[i + 1].capacity, ms[i].capacity)
        /\ Lt(ms[i + 1].energy, ms[i].energy)

\* C25: detect_aging_patterns returns (False, 'Insufficient data') for fewer
\* than 5 measurements; for 5 or more it returns (True, 'Aging pattern
\* detected') exactly when soh, capacity and energy each fall strictly between
\* every two consecutive measurements, and (False, 'No aging pattern
\* detected') otherwise.
C25_AgingPatternVerdict ==
    db.call.op = "detect_aging_patterns"
    => LET ms == db.call.measurements
       IN  db.call.pattern =
             IF Len(ms) < 5 THEN <<FALSE, "Insufficient data">>
             ELSE IF AllFalling(ms) THEN <<TRUE, "Aging pattern detected">>
             ELSE <<FALSE, "No aging pattern detected">>

\* five or more measurements with one tie in the energy alone, so no pattern
C25_Witness ==
    /\ db.call.op = "detect_aging_patterns"
    /\ Len(db.call.measurements) >= 5
    /\ db.call.pattern = <<FALSE, "No aging pattern detected">>
    /\ \A i \in 1..(Len(db.call.measurements) - 1) :
           /\ Lt(db.call.measurements[i + 1].soh, db.call.measurements[i].soh)
           /\ Lt(db.call.measurements[i + 1].capacity, db.call.measurements[i].capacity)
           /\ Le(db.call.measurements[i + 1].energy, db.call.measurements[i].energy)

-----------------------------------------------------------------------------
(* ConfigHandler: update_voltage_ranges and load_parameters, step by step *)

RangeLists == {<< <<0, top>> >> : top \in 1..MaxRangeTop}

\* the parameters files tried
ParameterFiles ==
    {NoFile, BadFile, JsonFile(Dict(<<>>)), JsonFile(List(<<1>>)),
     JsonFile(Dict([key \in {"current_range"} |-> << <<0, 1>> >>]))}
    \cup {JsonFile(Dict([key \in {"voltage_range", "current_range"} |-> r])) :
            r \in RangeLists}

\* a call of update_voltage_ranges(voltage_ranges) begins
CallUpdateVoltageRanges ==
    /\ handler.pc = "idle"
    /\ \E r \in RangeLists :
           handler' = [handler EXCEPT !.pc = "update:with", !.op = "update_voltage_ranges",
                                      !.voltage_ranges = r, !.exc = "none"]
    /\ UNCHANGED <<analysisVars, db, acq, ctl>>

\* a direct call of load_parameters() begins
CallLoadParameters ==
    /\ handler.pc = "idle"
    /\ handler' = [handler EXCEPT !.pc = "load:with", !.op = "load_parameters",
                                  !.voltage_ranges = <<>>, !.exc = "none"]
    /\ UNCHANGED <<analysisVars, db, acq, ctl>>

\* line 103, `with self.lock:` acquires the lock once it is free, then line
\* 104 tests the parameters
UpdateAcquire ==
    /\ handler.pc = "update:with"
    /\ handler.lock = "free"
    /\ handler' = [handler EXCEPT !.lock = "held",
                                  !.pc = IF Falsy(handler.parameters)
                                         THEN "load:with" ELSE "update:set"]
    /\ UNCHANGED <<analysisVars, db, acq, ctl>>

\* line 137, `with self.lock:` of load_parameters, waiting while the lock is
\* held, whoever holds it
LoadAcquire ==
    /\ handler.pc = "load:with"
    /\ handler.lock = "free"
    /\ handler' = [handler EXCEPT !.lock = "held", !.pc = "load:read"]
    /\ UNCHANGED <<analysisVars, db, acq, ctl>>

\* lines 138-145: read the file; the with block releases the lock on the way
\* out, and the exception or the value goes to the caller
LoadRead ==
    /\ handler.pc = "load:read"
    /\ LET file == handler.file
           loaded == IF file.tag = "json" THEN file.val ELSE handler.parameters
           exc == IF file.tag = "missing" THEN "FileNotFoundError"
                  ELSE IF file.tag = "invalid" THEN "InvalidConfigError"
                  ELSE IF Falsy(loaded) THEN "InvalidConfigError"
                  ELSE "none"
       IN  handler' =
             IF handler.op = "load_parameters"
             THEN [handler EXCEPT !.parameters = loaded, !.lock = "free",
                                  !.exc = exc, !.pc = "idle"]
             ELSE [handler EXCEPT !.parameters = loaded, !.lock = "free",
                                  !.exc = exc,
                                  !.pc = IF exc = "none" THEN "update:set" ELSE "update:except"]
    /\ UNCHANGED <<analysisVars, db, acq, ctl>>

\* lines 106-108: set the key (a list takes no string index), write the
\* file, leave the with block
UpdateSet ==
    /\ handler.pc = "update:set"
    /\ LET updated == SetVoltageRange(handler.parameters, handler.voltage_ranges)
       IN  handler' =
             IF handler.parameters.tag = "list"
             THEN [handler EXCEPT !.lock = "free", !.exc = "TypeError",
                                  !.pc = "update:except"]
             ELSE [handler EXCEPT !.parameters = updated,
                                  !.file = JsonFile(updated),
                                  !.lock = "free", !.pc = "idle"]
    /\ UNCHANGED <<analysisVars, db, acq, ctl>>

\* lines 109-110: the handler of update_voltage_ranges logs and returns
UpdateExcept ==
    /\ handler.pc = "update:except"
    /\ handler' = [handler EXCEPT !.pc = "idle"]
    /\ UNCHANGED <<analysisVars, db, acq, ctl>>

InitHandler ==
    /\ InitAnalysisIdle
    /\ db = NewDatabaseManager(<<>>)
    /\ handler \in {NewConfigHandler(file) : file \in ParameterFiles}
    /\ acq = NewDataAcquisition
    /\ ctl = NewController("ConfigHandler", "DataAcquisition")

NextHandler ==
    \/ CallUpdateVoltageRanges
    \/ CallLoadParameters
    \/ UpdateAcquire
    \/ LoadAcquire
    \/ LoadRead
    \/ UpdateSet
    \/ UpdateExcept

\* every step that can be taken is taken in the end: the one thread runs on
SpecHandler == InitHandler /\ [][NextHandler]_vars /\ WF_vars(NextHandler)

\* C27: a call of update_voltage_ranges always returns, with the lock
\* released; it never blocks for ever on the lock it holds itself.
C27_UpdateVoltageRangesReturns ==
    (handler.op = "update_voltage_ranges" /\ handler.pc = "update:with")
    ~> (handler.pc = "idle" /\ handler.lock = "free")

-----------------------------------------------------------------------------
(* DataAcquisition.buffer_data, step by step, from several threads *)

\* a thread calls buffer_data(sensor_data)
CallBufferData(th) ==
    /\ acq.pc[th] = "idle"
    /\ acq.arrived + Cardinality({o \in Threads : acq.pc[o] # "idle"})
         < BUFFER_SIZE + MaxExtra
    /\ acq' = [acq EXCEPT !.pc[th] = "with"]
    /\ UNCHANGED <<analysisVars, db, handler, ctl>>

\* line 121, `with self.lock:` once the lock is free, and line 122, the
\* append; the sample is named by its place in the order of arrival
BufferAppend(th) ==
    /\ acq.pc[th] = "with"
    /\ acq.lock = 0
    /\ acq' = [acq EXCEPT !.lock = th, !.pc[th] = "check",
                          !.arrived = acq.arrived + 1,
                          !.buffer = Append(acq.buffer, acq.arrived + 1)]
    /\ UNCHANGED <<analysisVars, db, handler, ctl>>

\* lines 123-124 and the end of the with block
BufferEvict(th) ==
    /\ acq.pc[th] = "check"
    /\ acq' = [acq EXCEPT !.lock = 0, !.pc[th] = "idle",
                          !.buffer = Evict(acq.buffer)]
    /\ UNCHANGED <<analysisVars, db, handler, ctl>>

NextBuffer ==
    \E th \in Threads :
        \/ CallBufferData(th)
        \/ BufferAppend(th)
        \/ BufferEvict(th)

SpecBuffer == InitDB /\ [][NextBuffer]_vars

\* C28: whenever no buffer_data call is between its append and its eviction
\* test, the buffer holds at most BUFFER_SIZE samples, and they are the most
\* recently appended ones in the order of arrival.
C28_BufferKeepsNewest ==
    acq.lock = 0
    => /\ Len(acq.buffer) <= BUFFER_SIZE
       /\ Len(acq.buffer) = IF acq.arrived < BUFFER_SIZE THEN acq.arrived ELSE BUFFER_SIZE
       /\ \A i \in 1..Len(acq.buffer) :
              acq.buffer[i] = acq.arrived - Len(acq.buffer) + i

\* a sample arrived at a full buffer and the call that brought it is over
C28_Witness ==
    /\ acq.lock = 0
    /\ acq.arrived = BUFFER_SIZE + 1
    /\ Len(acq.buffer) = BUFFER_SIZE
    /\ acq.buffer[1] = 2

-----------------------------------------------------------------------------
(* DataAcquisition: the connection operations *)

\* connect_to_can_bus(): CanBus(...) either yields a bus or raises, and the
\* exception is answered with False
connect_to_can_bus(a, can_ok) ==
    [a EXCEPT !.can_bus = IF can_ok THEN "open" ELSE a.can_bus,
              !.last_can = IF can_ok THEN "ok" ELSE "failed",
              !.call = [IdleAcq EXCEPT !.op = "connect_to_can_bus", !.can_ok = can_ok,
                                       !.ret = can_ok, !.was = a.connection_status]]

\* read_obd_data(): opens the OBD connection when there is none; obd says how
\* the library calls end: "ok", or "connect" / "query" for a ConnectionError
\* raised by pyobd2.OBD() or a ScanError raised by a query
read_obd_data(a, obd) ==
    [a EXCEPT !.obd_connection = IF a.obd_connection = "None" /\ obd = "connect"
                                 THEN "None" ELSE "open",
              !.call = [IdleAcq EXCEPT !.op = "read_obd_data", !.obd = obd,
                                       !.ret = (obd = "ok"), !.was = a.connection_status]]

\* handle_connection_errors(): in state ERROR call connect_to_can_bus(), whose
\* result is dropped, then open the OBD connection and set CONNECTED unless
\* pyobd2.OBD() raised; in any other state set ERROR
handle_connection_errors(a, can_ok, obd) ==
    LET c == [IdleAcq EXCEPT !.op = "handle_connection_errors", !.can_ok = can_ok,
                             !.obd = obd, !.was = a.connection_status]
    IN  IF a.connection_status = "ERROR"
        THEN LET b == connect_to_can_bus(a, can_ok)
             IN  IF obd = "ok"
                 THEN [b EXCEPT !.obd_connection = "open",
                                !.connection_status = "CONNECTED",
                                !.call = [c EXCEPT !.ret = TRUE]]
                 ELSE [b EXCEPT !.call = c]
        ELSE [a EXCEPT !.connection_status = "ERROR",
                       !.call = [c EXCEPT !.can_ok = FALSE, !.obd = "none"]]

ConnectToCanBus ==
    /\ \E can_ok \in BOOLEAN : acq' = connect_to_can_bus(acq, can_ok)
    /\ UNCHANGED <<analysisVars, db, handler, ctl>>

ReadObdData ==
    /\ \E obd \in {"ok", "connect", "query"} :
           /\ (obd = "connect" => acq.obd_connection = "None")
           /\ acq' = read_obd_data(acq, obd)
    /\ UNCHANGED <<analysisVars, db, handler, ctl>>

HandleConnectionErrors ==
    /\ \E can_ok \in BOOLEAN, obd \in {"ok", "connect"} :
           acq' = handle_connection_errors(acq, can_ok, obd)
    /\ UNCHANGED <<analysisVars, db, handler, ctl>>

\* one round of the loop of stream_sensor_data: a message received from the
\* bus is buffered; when recv() raises, as it does on a bus that is None,
\* handle_connection_errors() is called
StreamIteration ==
    /\ acq.lock = 0
    /\ acq.arrived < MaxStreamed
    /\ \/ /\ acq.can_bus = "open"
          /\ acq' = [acq EXCEPT !.arrived = acq.arrived + 1,
                                !.buffer = Evict(Append(acq.buffer, acq.arrived + 1)),
                                !.call = [IdleAcq EXCEPT !.op = "buffer_data",
                                                         !.was = acq.connection_status]]
       \/ \E can_ok \in BOOLEAN, obd \in {"ok", "connect"} :
              acq' = handle_connection_errors(acq, can_ok, obd)
    /\ UNCHANGED <<analysisVars, db, handler, ctl>>

NextConnection ==
    \/ ConnectToCanBus
    \/ ReadObdData
    \/ HandleConnectionErrors
    \/ StreamIteration

SpecConnection == InitDB /\ [][NextConnection]_vars

\* C30: connection_status is CONNECTED only when the latest
\* connect_to_can_bus() succeeded; handle_connection_errors never sets
\* CONNECTED after a reconnect in which connect_to_can_bus() returned False.
C30_ConnectedOnlyAfterCanSuccess ==
    acq.connection_status = "CONNECTED" => acq.last_can = "ok"

\* C30, the rest: handle_connection_errors moves a status other than ERROR to
\* ERROR without reconnecting, and reconnects only from ERROR.
C30_ReconnectOnlyFromError ==
    acq.call.op = "handle_connection_errors"
    => IF acq.call.was = "ERROR"
       THEN acq.last_can # "none"
       ELSE /\ acq.connection_status = "ERROR"
            /\ acq.call.obd = "none"

-----------------------------------------------------------------------------
(* MeasurementController driven by main(), statement by statement *)

MaxRounds == 6     \* rounds of the monitoring loop followed

\* what a check answers: the reading is within tolerance only when the data
\* acquisition object has the reader and the config handler the target;
\* otherwise the AttributeError is caught and the answer is False
CheckAnswers(c) ==
    IF /\ c.data_acquisition = "with read_voltage etc."
       /\ c.config_handler = "with get_serial_port etc."
    THEN {TRUE, FALSE}
    ELSE {FALSE}

\* line 191, initiate_charging_session(): opened says whether Serial(...) and
\* the write went through, response whether the device confirmed
InitiateChargingSession ==
    /\ ctl.pc = "initiate"
    /\ \E opened \in BOOLEAN, response \in BOOLEAN :
           ctl' =
             IF ctl.config_handler = "ConfigHandler" \/ ~opened
             THEN [ctl EXCEPT !.pc = "done"]
             ELSE IF response
             THEN [ctl EXCEPT !.serial_connection = "open",
                              !.charging_session_status = "IN_PROGRESS",
                              !.pc = "while"]
             ELSE [ctl EXCEPT !.serial_connection = "open", !.pc = "done"]
    /\ UNCHANGED <<analysisVars, db, handler, acq>>

\* line 193, the loop condition
LoopCondition ==
    /\ ctl.pc = "while"
    /\ ctl' = [ctl EXCEPT !.pc = IF ctl.charging_session_status = "IN_PROGRESS"
                                 THEN "voltage" ELSE "close",
                          !.checks = NoChecks]
    /\ UNCHANGED <<analysisVars, db, handler, acq>>

\* line 194, monitor_voltage_range()
MonitorVoltageRange ==
    /\ ctl.pc = "voltage"
    /\ \E ok \in CheckAnswers(ctl) :
           ctl' = [ctl EXCEPT !.checks.voltage = IF ok THEN "True" ELSE "False",
                              !.pc = IF ok THEN "sleep" ELSE "temperature"]
    /\ UNCHANGED <<analysisVars, db, handler, acq>>

\* line 196, enforce_temperature_limits()
EnforceTemperatureLimits ==
    /\ ctl.pc = "temperature"
    /\ \E ok \in CheckAnswers(ctl) :
           ctl' = [ctl EXCEPT !.checks.temperature = IF ok THEN "True" ELSE "False",
                              !.pc = IF ok THEN "sleep" ELSE "balancing"]
    /\ UNCHANGED <<analysisVars, db, handler, acq>>

\* line 198, handle_balancing_states()
HandleBalancingStates ==
    /\ ctl.pc = "balancing"
    /\ \E ok \in CheckAnswers(ctl) :
           ctl' = [ctl EXCEPT !.checks.balancing = IF ok THEN "True" ELSE "False",
                              !.pc = IF ok THEN "sleep" ELSE "terminate"]
    /\ UNCHANGED <<analysisVars, db, handler, acq>>

\* lines 200-201, terminate_session() and the break: the status changes only
\* when the write went through and the device confirmed; the result of the
\* call is not looked at
TerminateSession ==
    /\ ctl.pc = "terminate"
    /\ \E written \in BOOLEAN, response \in BOOLEAN :
           ctl' = [ctl EXCEPT !.charging_session_status =
                                  IF written /\ response THEN "TERMINATED"
                                  ELSE ctl.charging_session_status,
                              !.terminate_called = TRUE,
                              !.terminated_in = ctl.checks,
                              !.pc = "close"]
    /\ UNCHANGED <<analysisVars, db, handler, acq>>

\* line 202, time.sleep(1), and back to the loop condition
Sleep ==
    /\ ctl.pc = "sleep"
    /\ ctl.rounds < MaxRounds
    /\ ctl' = [ctl EXCEPT !.pc = "while", !.rounds = ctl.rounds + 1]
    /\ UNCHANGED <<analysisVars, db, handler, acq>>

\* line 204, close_serial_connection()
CloseSerialConnection ==
    /\ ctl.pc = "close"
    /\ ctl' = [ctl EXCEPT !.serial_connection = "None", !.pc = "closed"]
    /\ UNCHANGED <<analysisVars, db, handler, acq>>

InitController ==
    /\ InitAnalysisIdle
    /\ db = NewDatabaseManager(<<>>)
    /\ handler = NewConfigHandler(NoFile)
    /\ acq = NewDataAcquisition
    /\ ctl \in {NewController(c, a) : c \in ConfigHandlers, a \in DataAcquisitions}

NextController ==
    \/ InitiateChargingSession
    \/ LoopCondition
    \/ MonitorVoltageRange
    \/ EnforceTemperatureLimits
    \/ HandleBalancingStates
    \/ TerminateSession
    \/ Sleep
    \/ CloseSerialConnection

SpecController == InitController /\ [][NextController]_vars

C29_TerminateOnlyAfterThreeFailures ==
    /\ ctl.terminate_called =>
           ctl.terminated_in = [voltage |-> "False", temperature |-> "False",
                                balancing |-> "False"]
    /\ ctl.pc = "closed" => ctl.serial_connection = "None"

=============================================================================
